---- MODULE Spec2Model ----
(***************************************************************************)
(* State-machine model of Contracts/TelemedicineSystem.sol.                *)
(*                                                                         *)
(* Every external function of the contract is an operator from the         *)
(* storage before the call to a result: either the call reverts (the       *)
(* storage is the one before the call, err carries the revert string) or   *)
(* it returns (the storage after the call and the events it emitted).      *)
(* One action per function applies the operator to the current state for   *)
(* a caller and arguments drawn from small sets.  A call that returns      *)
(* becomes the new state; a call that reverts leaves every variable as it  *)
(* was: the chain keeps no trace of it.  What a call does in a state (its  *)
(* outcome, its revert string, the events it emits) is read off its        *)
(* operator applied to that state.                                         *)
(*                                                                         *)
(* Units: time is in seconds (block.timestamp), token amounts are in       *)
(* whole tokens (10^18 base units), native amounts in whole fee units.     *)
(***************************************************************************)
EXTENDS Integers, Sequences, FiniteSets, TLC

\* ------------------------------------------------------------------ bounds
\* Highest identifier each counter may reach in the model.
MaxLab == 2
MaxAppt == 2
MaxAI == 2
\* Number of half-day clock steps the model lets pass after deployment.
MaxHalfDays == 3

\* --------------------------------------------------------- program constants
MIN_BOOKING_BUFFER == 900
ONE_DAY == 86400
THIRTY_DAYS == 2592000
DATA_MONETIZATION_REWARD == 10
MEDIPOINTS_BOOKING == 20
MEDIPOINTS_ANALYSIS == 10
INITIAL_LEVEL == 1

\* block.timestamp of the deployment block (any real chain: far above one day).
DeployTime == 19000 * ONE_DAY
HalfDay == ONE_DAY \div 2

\* --------------------------------------------------------------- identities
ZeroAddr == "0x0"
Core == "core"
Admin == "admin"
EntryPointAddr == "relay"
Users == {"alice", "bob", "drd", "dre", "tech1", "tech2", "pharm1", "pharm2"}
Addr == Users \cup {Admin, EntryPointAddr, Core, ZeroAddr}

ADMIN_ROLE == "ADMIN_ROLE"
DOCTOR_ROLE == "DOCTOR_ROLE"
PATIENT_ROLE == "PATIENT_ROLE"
LAB_TECH_ROLE == "LAB_TECH_ROLE"
PHARMACY_ROLE == "PHARMACY_ROLE"
Roles == {ADMIN_ROLE, DOCTOR_ROLE, PATIENT_ROLE, LAB_TECH_ROLE, PHARMACY_ROLE}

AppointmentStatus == {"Pending", "Confirmed", "Completed", "Cancelled", "Emergency"}
PaymentType == {"ETH", "USDC", "SONIC"}
LabTestStatus == {"Requested", "Collected", "ResultsUploaded", "Reviewed"}
PrescriptionStatus == {"Generated", "Verified", "Fulfilled"}
DataSharingStatus == {"Disabled", "Enabled"}

\* ------------------------------------------------------------------- state
VARIABLES
    roles,               \* AccessControl: role -> set of members
    paused,              \* Pausable._paused
    entered,             \* ReentrancyGuard._status = ENTERED
    patients, doctors, labTechnicians, pharmacies,
    appointments, labTestOrders, prescriptions, aiAnalyses,
    appointmentCounter, labTestCounter, prescriptionCounter, aiAnalysisCounter,
    eth, usdc, sonic,    \* balances: native currency, usdcToken, sonicToken
    now,                 \* block.timestamp
    paidAt,              \* history: block.timestamp of each account's last reward payout
    paidBy,              \* history: the function whose call made that payout
    pending              \* the call that has handed control to an external party

vars == <<roles, paused, entered, patients, doctors, labTechnicians, pharmacies,
          appointments, labTestOrders, prescriptions, aiAnalyses,
          appointmentCounter, labTestCounter, prescriptionCounter, aiAnalysisCounter,
          eth, usdc, sonic, now, paidAt, paidBy, pending>>

ApptIds == 0..MaxAppt
LabIds == 0..MaxLab
AIIds == 0..MaxAI

\* Solidity's zero value of each struct: what a mapping holds under a key never written.
NoPatient ==
    [isRegistered |-> FALSE, encryptedSymmetricKey |-> "", medicalHistoryHash |-> 0,
     mediPoints |-> 0, currentLevel |-> 0, dataSharing |-> "Disabled",
     lastRewardTimestamp |-> 0]

NoDoctor == [isVerified |-> FALSE, consultationFee |-> 0, licenseNumber |-> ""]

NoLabTechnician == [isVerified |-> FALSE, licenseNumber |-> ""]

NoPharmacy == [isRegistered |-> FALSE, licenseNumber |-> ""]

NoAppointment ==
    [id |-> 0, patient |-> ZeroAddr, doctor |-> ZeroAddr, scheduledTimestamp |-> 0,
     status |-> "Pending", fee |-> 0, paymentType |-> "ETH", videoCallLink |-> "",
     isVideoCall |-> FALSE]

NoLabTestOrder ==
    [id |-> 0, patient |-> ZeroAddr, doctor |-> ZeroAddr, labTech |-> ZeroAddr,
     status |-> "Requested", testType |-> "", sampleCollectionIpfsHash |-> "",
     resultsIpfsHash |-> "", orderedTimestamp |-> 0, completedTimestamp |-> 0]

NoCode == <<0, ZeroAddr, 0>>

NoPrescription ==
    [id |-> 0, patient |-> ZeroAddr, doctor |-> ZeroAddr, verificationCodeHash |-> NoCode,
     medicationDetails |-> "", prescriptionIpfsHash |-> "", status |-> "Generated",
     pharmacy |-> ZeroAddr, generatedTimestamp |-> 0, expirationTimestamp |-> 0]

NoAnalysis ==
    [id |-> 0, patient |-> ZeroAddr, symptoms |-> "", analysisIpfsHash |-> "",
     doctorReviewed |-> FALSE]

\* The storage and balances a call reads and writes, as one value.
Store ==
    [roles |-> roles, paused |-> paused, entered |-> entered,
     patients |-> patients, doctors |-> doctors, labTechnicians |-> labTechnicians,
     pharmacies |-> pharmacies, appointments |-> appointments,
     labTestOrders |-> labTestOrders, prescriptions |-> prescriptions,
     aiAnalyses |-> aiAnalyses, appointmentCounter |-> appointmentCounter,
     labTestCounter |-> labTestCounter, prescriptionCounter |-> prescriptionCounter,
     aiAnalysisCounter |-> aiAnalysisCounter, eth |-> eth, usdc |-> usdc,
     sonic |-> sonic, now |-> now]

\* ---------------------------------------------------------- call outcomes
Event(name, id, who) == [name |-> name, id |-> id, who |-> who]

\* tok: what the token contract answered when the call reached a transfer
\* ("true", "false", "throws"), "none" when it made no token call.
Return(s, ev) == [ok |-> TRUE, err |-> "", s |-> s, ev |-> ev, tok |-> "none"]

Revert(s0, msg) == [ok |-> FALSE, err |-> msg, s |-> s0, ev |-> <<>>, tok |-> "none"]

WithTok(r, ret) == [r EXCEPT !.tok = ret]

ERR_ROLE == "AccessControl: missing role"
ERR_PAUSED == "Pausable: paused"
ERR_REENTRANT == "ReentrancyGuard: reentrant call"
ERR_TOKEN == "token transfer reverted"
ERR_REFUND == "native transfer failed"

\* AccessControl.hasRole
hasRole(s, role, account) == account \in s.roles[role]

\* AccessControl._grantRole
grantRoleInternal(s, role, account) ==
    [s EXCEPT !.roles[role] = @ \cup {account}]

\* ------------------------------------------------------ token collaborator
\* How the token contract answers one transfer / transferFrom call.
TokenBehaviour == {"moves", "returnsFalse", "throws"}

\* IERC20.transfer / transferFrom(from, to, amount) on balance map bal: the token
\* either moves the amount and returns true, or returns false and moves nothing, or
\* throws. A well-behaved token asked to move more than `from` holds throws.
tokenTransfer(bal, from, to, amount, behaviour) ==
    IF behaviour = "moves" /\ bal[from] >= amount
    THEN [ret |-> "true",
          bal |-> [bal EXCEPT ![from] = @ - amount, ![to] = @ + amount]]
    ELSE IF behaviour = "returnsFalse"
    THEN [ret |-> "false", bal |-> bal]
    ELSE [ret |-> "throws", bal |-> bal]

\* ------------------------------------------------------- internal functions
\* monetizeData with the cooldown test left out.
monetizeData_NoCooldown(s, patient, tok) ==
    IF s.patients[patient].dataSharing = "Enabled"
    THEN LET s1 == [s EXCEPT !.patients[patient].lastRewardTimestamp = s.now]
             tr == tokenTransfer(s1.sonic, Core, patient, DATA_MONETIZATION_REWARD, tok)
         IN  IF tr.ret = "throws"
             THEN WithTok(Revert(s, ERR_TOKEN), tr.ret)
             ELSE WithTok(Return([s1 EXCEPT !.sonic = tr.bal],
                                 <<Event("DataRewardClaimed", DATA_MONETIZATION_REWARD,
                                         patient)>>),
                          tr.ret)
    ELSE Return(s, <<>>)

\* monetizeData that starts the cooldown without paying when the patient was
\* never rewarded (the cooldown counted from the first eligible action).
monetizeData_SkipFirst(s, patient, tok) ==
    IF /\ s.patients[patient].dataSharing = "Enabled"
       /\ s.now >= s.patients[patient].lastRewardTimestamp + ONE_DAY
    THEN LET s1 == [s EXCEPT !.patients[patient].lastRewardTimestamp = s.now]
             tr == tokenTransfer(s1.sonic, Core, patient, DATA_MONETIZATION_REWARD, tok)
         IN  IF s.patients[patient].lastRewardTimestamp = 0
             THEN Return(s1, <<>>)
             ELSE IF tr.ret = "throws"
             THEN WithTok(Revert(s, ERR_TOKEN), tr.ret)
             ELSE WithTok(Return([s1 EXCEPT !.sonic = tr.bal],
                                 <<Event("DataRewardClaimed", DATA_MONETIZATION_REWARD,
                                         patient)>>),
                          tr.ret)
    ELSE Return(s, <<>>)

\* _monetizeData(_patient): the implicit reward. The return value of
\* sonicToken.transfer is not read; a throwing transfer propagates.
monetizeData(s, patient, tok) ==
    IF /\ s.patients[patient].dataSharing = "Enabled"
       /\ s.now >= s.patients[patient].lastRewardTimestamp + ONE_DAY
    THEN LET s1 == [s EXCEPT !.patients[patient].lastRewardTimestamp = s.now]
             tr == tokenTransfer(s1.sonic, Core, patient, DATA_MONETIZATION_REWARD, tok)
         IN  IF tr.ret = "throws"
             THEN WithTok(Revert(s, ERR_TOKEN), tr.ret)
             ELSE WithTok(Return([s1 EXCEPT !.sonic = tr.bal],
                                 <<Event("DataRewardClaimed", DATA_MONETIZATION_REWARD,
                                         patient)>>),
                          tr.ret)
    ELSE Return(s, <<>>)

\* _processPayment that keeps the excess of msg.value.
processPayment_NoRefund(s, type, amount, sender, value, tok, refundOk) ==
    IF type = "ETH"
    THEN IF value < amount
         THEN Revert(s, "Insufficient ETH")
         ELSE IF value > amount
              THEN Return(s, <<>>)
              ELSE Return(s, <<>>)
    ELSE IF type = "USDC"
    THEN LET tr == tokenTransfer(s.usdc, sender, Core, amount, tok)
         IN  IF tr.ret = "true"
             THEN WithTok(Return([s EXCEPT !.usdc = tr.bal], <<>>), tr.ret)
             ELSE WithTok(Revert(s, IF tr.ret = "false" THEN "USDC transfer failed"
                                    ELSE ERR_TOKEN),
                          tr.ret)
    ELSE LET tr == tokenTransfer(s.sonic, sender, Core, amount, tok)
         IN  IF tr.ret = "true"
             THEN WithTok(Return([s EXCEPT !.sonic = tr.bal], <<>>), tr.ret)
             ELSE WithTok(Revert(s, IF tr.ret = "false" THEN "SONIC transfer failed"
                                    ELSE ERR_TOKEN),
                          tr.ret)

\* _processPayment(_type, _amount) for msg.sender = sender and msg.value = value
\* (already credited to the contract). refundOk: whether the caller accepts the
\* native refund sent with address.transfer.
processPayment(s, type, amount, sender, value, tok, refundOk) ==
    IF type = "ETH"
    THEN IF value < amount
         THEN Revert(s, "Insufficient ETH")
         ELSE IF value > amount
              THEN IF refundOk
                   THEN Return([s EXCEPT !.eth[Core] = @ - (value - amount),
                                         !.eth[sender] = @ + (value - amount)], <<>>)
                   ELSE Revert(s, ERR_REFUND)
              ELSE Return(s, <<>>)
    ELSE IF type = "USDC"
    THEN LET tr == tokenTransfer(s.usdc, sender, Core, amount, tok)
         IN  IF tr.ret = "true"
             THEN WithTok(Return([s EXCEPT !.usdc = tr.bal], <<>>), tr.ret)
             ELSE WithTok(Revert(s, IF tr.ret = "false" THEN "USDC transfer failed"
                                    ELSE ERR_TOKEN),
                          tr.ret)
    ELSE LET tr == tokenTransfer(s.sonic, sender, Core, amount, tok)
         IN  IF tr.ret = "true"
             THEN WithTok(Return([s EXCEPT !.sonic = tr.bal], <<>>), tr.ret)
             ELSE WithTok(Revert(s, IF tr.ret = "false" THEN "SONIC transfer failed"
                                    ELSE ERR_TOKEN),
                          tr.ret)

\* --------------------------------------------------------- admin functions
\* grantRole without the role-admin check.
grantRole_NoCheck(s, sender, role, account) ==
    Return(grantRoleInternal(s, role, account), <<>>)

\* AccessControl.grantRole(role, account): onlyRole(getRoleAdmin(role)); every
\* role's admin is ADMIN_ROLE (initialize).
grantRole(s, sender, role, account) ==
    IF ~hasRole(s, ADMIN_ROLE, sender)
    THEN Revert(s, ERR_ROLE)
    ELSE Return(grantRoleInternal(s, role, account), <<>>)

\* AccessControl.revokeRole(role, account)
revokeRole(s, sender, role, account) ==
    IF ~hasRole(s, ADMIN_ROLE, sender)
    THEN Revert(s, ERR_ROLE)
    ELSE Return([s EXCEPT !.roles[role] = @ \ {account}], <<>>)

\* verifyDoctor that keeps the fee of a doctor already verified.
verifyDoctor_KeepFee(s, sender, doctor, license, fee) ==
    IF ~hasRole(s, ADMIN_ROLE, sender)
    THEN Revert(s, ERR_ROLE)
    ELSE Return(grantRoleInternal(
                    [s EXCEPT !.doctors[doctor] =
                        [isVerified |-> TRUE,
                         consultationFee |-> IF s.doctors[doctor].isVerified
                                             THEN s.doctors[doctor].consultationFee
                                             ELSE fee,
                         licenseNumber |-> license]],
                    DOCTOR_ROLE, doctor),
                <<Event("DoctorVerified", 0, doctor)>>)

verifyDoctor(s, sender, doctor, license, fee) ==
    IF ~hasRole(s, ADMIN_ROLE, sender)
    THEN Revert(s, ERR_ROLE)
    ELSE Return(grantRoleInternal(
                    [s EXCEPT !.doctors[doctor] =
                        [isVerified |-> TRUE, consultationFee |-> fee,
                         licenseNumber |-> license]],
                    DOCTOR_ROLE, doctor),
                <<Event("DoctorVerified", 0, doctor)>>)

verifyLabTechnician(s, sender, labTech, license) ==
    IF ~hasRole(s, ADMIN_ROLE, sender)
    THEN Revert(s, ERR_ROLE)
    ELSE Return(grantRoleInternal(
                    [s EXCEPT !.labTechnicians[labTech] =
                        [isVerified |-> TRUE, licenseNumber |-> license]],
                    LAB_TECH_ROLE, labTech),
                <<Event("LabTechnicianVerified", 0, labTech)>>)

registerPharmacy(s, sender, pharmacy, license) ==
    IF ~hasRole(s, ADMIN_ROLE, sender)
    THEN Revert(s, ERR_ROLE)
    ELSE Return(grantRoleInternal(
                    [s EXCEPT !.pharmacies[pharmacy] =
                        [isRegistered |-> TRUE, licenseNumber |-> license]],
                    PHARMACY_ROLE, pharmacy),
                <<Event("PharmacyRegistered", 0, pharmacy)>>)

\* -------------------------------------------------------- patient functions
\* registerPatient without the "Already registered" requirement.
registerPatient_NoCheck(s, sender, key) ==
    IF s.paused
    THEN Revert(s, ERR_PAUSED)
    ELSE Return(grantRoleInternal(
                    [s EXCEPT !.patients[sender] =
                        [isRegistered |-> TRUE, encryptedSymmetricKey |-> key,
                         medicalHistoryHash |-> 0, mediPoints |-> 0,
                         currentLevel |-> INITIAL_LEVEL, dataSharing |-> "Disabled",
                         lastRewardTimestamp |-> 0]],
                    PATIENT_ROLE, sender),
                <<Event("PatientRegistered", 0, sender)>>)

registerPatient(s, sender, key) ==
    IF s.paused
    THEN Revert(s, ERR_PAUSED)
    ELSE IF s.patients[sender].isRegistered
    THEN Revert(s, "Already registered")
    ELSE Return(grantRoleInternal(
                    [s EXCEPT !.patients[sender] =
                        [isRegistered |-> TRUE, encryptedSymmetricKey |-> key,
                         medicalHistoryHash |-> 0, mediPoints |-> 0,
                         currentLevel |-> INITIAL_LEVEL, dataSharing |-> "Disabled",
                         lastRewardTimestamp |-> 0]],
                    PATIENT_ROLE, sender),
                <<Event("PatientRegistered", 0, sender)>>)

\* bookAppointment without the "Doctor not verified" requirement.
bookAppointment_NoDoctorCheck(s, sender, doctor, timestamp, ptype, isVideoCall, link, value, tok, refundOk) ==
    IF ~hasRole(s, PATIENT_ROLE, sender)
    THEN Revert(s, ERR_ROLE)
    ELSE IF s.entered
    THEN Revert(s, ERR_REENTRANT)
    ELSE IF ~(timestamp > s.now + MIN_BOOKING_BUFFER)
    THEN Revert(s, "Too soon")
    ELSE LET fee == s.doctors[doctor].consultationFee
             pay == processPayment(s, ptype, fee, sender, value, tok, refundOk)
             n == s.appointmentCounter + 1
         IN  IF ~pay.ok
             THEN WithTok(Revert(s, pay.err), pay.tok)
             ELSE WithTok(Return([pay.s EXCEPT
                            !.appointmentCounter = n,
                            !.appointments[n] =
                                [id |-> n, patient |-> sender, doctor |-> doctor,
                                 scheduledTimestamp |-> timestamp, status |-> "Pending",
                                 fee |-> fee, paymentType |-> ptype,
                                 videoCallLink |-> IF isVideoCall THEN link ELSE "",
                                 isVideoCall |-> isVideoCall],
                            !.patients[sender].mediPoints = @ + MEDIPOINTS_BOOKING],
                         <<Event("AppointmentBooked", n, sender)>>), pay.tok)

\* bookAppointment that writes the record before incrementing the counter.
bookAppointment_StaleCounter(s, sender, doctor, timestamp, ptype, isVideoCall, link, value, tok, refundOk) ==
    IF ~hasRole(s, PATIENT_ROLE, sender)
    THEN Revert(s, ERR_ROLE)
    ELSE IF s.entered
    THEN Revert(s, ERR_REENTRANT)
    ELSE IF ~s.doctors[doctor].isVerified
    THEN Revert(s, "Doctor not verified")
    ELSE IF ~(timestamp > s.now + MIN_BOOKING_BUFFER)
    THEN Revert(s, "Too soon")
    ELSE LET fee == s.doctors[doctor].consultationFee
             pay == processPayment(s, ptype, fee, sender, value, tok, refundOk)
             n == s.appointmentCounter + 1
         IN  IF ~pay.ok
             THEN WithTok(Revert(s, pay.err), pay.tok)
             ELSE WithTok(Return([pay.s EXCEPT
                            !.appointmentCounter = n,
                            !.appointments[s.appointmentCounter] =
                                [id |-> n, patient |-> sender, doctor |-> doctor,
                                 scheduledTimestamp |-> timestamp, status |-> "Pending",
                                 fee |-> fee, paymentType |-> ptype,
                                 videoCallLink |-> IF isVideoCall THEN link ELSE "",
                                 isVideoCall |-> isVideoCall],
                            !.patients[sender].mediPoints = @ + MEDIPOINTS_BOOKING],
                         <<Event("AppointmentBooked", n, sender)>>), pay.tok)

\* bookAppointment that accepts a time exactly the lead time ahead.
bookAppointment_NoLeadTime(s, sender, doctor, timestamp, ptype, isVideoCall, link, value, tok, refundOk) ==
    IF ~hasRole(s, PATIENT_ROLE, sender)
    THEN Revert(s, ERR_ROLE)
    ELSE IF s.entered
    THEN Revert(s, ERR_REENTRANT)
    ELSE IF ~s.doctors[doctor].isVerified
    THEN Revert(s, "Doctor not verified")
    ELSE IF ~(timestamp >= s.now + MIN_BOOKING_BUFFER)
    THEN Revert(s, "Too soon")
    ELSE LET fee == s.doctors[doctor].consultationFee
             pay == processPayment(s, ptype, fee, sender, value, tok, refundOk)
             n == s.appointmentCounter + 1
         IN  IF ~pay.ok
             THEN WithTok(Revert(s, pay.err), pay.tok)
             ELSE WithTok(Return([pay.s EXCEPT
                            !.appointmentCounter = n,
                            !.appointments[n] =
                                [id |-> n, patient |-> sender, doctor |-> doctor,
                                 scheduledTimestamp |-> timestamp, status |-> "Pending",
                                 fee |-> fee, paymentType |-> ptype,
                                 videoCallLink |-> IF isVideoCall THEN link ELSE "",
                                 isVideoCall |-> isVideoCall],
                            !.patients[sender].mediPoints = @ + MEDIPOINTS_BOOKING],
                         <<Event("AppointmentBooked", n, sender)>>), pay.tok)

\* bookAppointment, payable: s already holds msg.value credited to the contract;
\* a revert returns it with the rest of the state (see TxBookAppointment).
bookAppointment(s, sender, doctor, timestamp, ptype, isVideoCall, link, value, tok, refundOk) ==
    IF ~hasRole(s, PATIENT_ROLE, sender)
    THEN Revert(s, ERR_ROLE)
    ELSE IF s.entered
    THEN Revert(s, ERR_REENTRANT)
    ELSE IF ~s.doctors[doctor].isVerified
    THEN Revert(s, "Doctor not verified")
    ELSE IF ~(timestamp > s.now + MIN_BOOKING_BUFFER)
    THEN Revert(s, "Too soon")
    ELSE LET fee == s.doctors[doctor].consultationFee
             pay == processPayment(s, ptype, fee, sender, value, tok, refundOk)
             n == s.appointmentCounter + 1
         IN  IF ~pay.ok
             THEN WithTok(Revert(s, pay.err), pay.tok)
             ELSE WithTok(Return([pay.s EXCEPT
                            !.appointmentCounter = n,
                            !.appointments[n] =
                                [id |-> n, patient |-> sender, doctor |-> doctor,
                                 scheduledTimestamp |-> timestamp, status |-> "Pending",
                                 fee |-> fee, paymentType |-> ptype,
                                 videoCallLink |-> IF isVideoCall THEN link ELSE "",
                                 isVideoCall |-> isVideoCall],
                            !.patients[sender].mediPoints = @ + MEDIPOINTS_BOOKING],
                         <<Event("AppointmentBooked", n, sender)>>), pay.tok)

\* requestAISymptomAnalysis that issues identifier 1 and then reuses the last one.
requestAISymptomAnalysis_ReuseId(s, sender, symptoms, tok) ==
    IF ~hasRole(s, PATIENT_ROLE, sender)
    THEN Revert(s, ERR_ROLE)
    ELSE LET n == IF s.aiAnalysisCounter = 0 THEN 1 ELSE s.aiAnalysisCounter
             s1 == [s EXCEPT
                      !.aiAnalysisCounter = n,
                      !.aiAnalyses[n] =
                          [id |-> n, patient |-> sender, symptoms |-> symptoms,
                           analysisIpfsHash |-> "", doctorReviewed |-> FALSE],
                      !.patients[sender].mediPoints = @ + MEDIPOINTS_ANALYSIS]
             m == monetizeData(s1, sender, tok)
         IN  IF ~m.ok
             THEN WithTok(Revert(s, m.err), m.tok)
             ELSE WithTok(Return(m.s, <<Event("AISymptomAnalyzed", n, sender)>> \o m.ev), m.tok)

requestAISymptomAnalysis(s, sender, symptoms, tok) ==
    IF ~hasRole(s, PATIENT_ROLE, sender)
    THEN Revert(s, ERR_ROLE)
    ELSE LET n == s.aiAnalysisCounter + 1
             s1 == [s EXCEPT
                      !.aiAnalysisCounter = n,
                      !.aiAnalyses[n] =
                          [id |-> n, patient |-> sender, symptoms |-> symptoms,
                           analysisIpfsHash |-> "", doctorReviewed |-> FALSE],
                      !.patients[sender].mediPoints = @ + MEDIPOINTS_ANALYSIS]
             m == monetizeData(s1, sender, tok)
         IN  IF ~m.ok
             THEN WithTok(Revert(s, m.err), m.tok)
             ELSE WithTok(Return(m.s, <<Event("AISymptomAnalyzed", n, sender)>> \o m.ev), m.tok)

\* toggleDataMonetization that restarts the cooldown.
toggleDataMonetization_ResetStamp(s, sender, enable) ==
    IF ~hasRole(s, PATIENT_ROLE, sender)
    THEN Revert(s, ERR_ROLE)
    ELSE IF ~s.patients[sender].isRegistered
    THEN Revert(s, "Not registered")
    ELSE Return([s EXCEPT !.patients[sender].lastRewardTimestamp = 0,
                          !.patients[sender].dataSharing =
                              IF enable THEN "Enabled" ELSE "Disabled"],
                <<Event("DataMonetizationOptIn", IF enable THEN 1 ELSE 0, sender)>>)

toggleDataMonetization(s, sender, enable) ==
    IF ~hasRole(s, PATIENT_ROLE, sender)
    THEN Revert(s, ERR_ROLE)
    ELSE IF ~s.patients[sender].isRegistered
    THEN Revert(s, "Not registered")
    ELSE Return([s EXCEPT !.patients[sender].dataSharing =
                              IF enable THEN "Enabled" ELSE "Disabled"],
                <<Event("DataMonetizationOptIn", IF enable THEN 1 ELSE 0, sender)>>)

\* claimDataReward that does not record the time of the payout.
claimDataReward_NoStamp(s, sender, tok) ==
    IF ~hasRole(s, PATIENT_ROLE, sender)
    THEN Revert(s, ERR_ROLE)
    ELSE IF s.entered
    THEN Revert(s, ERR_REENTRANT)
    ELSE IF s.patients[sender].dataSharing # "Enabled"
    THEN Revert(s, "Data sharing not enabled")
    ELSE IF ~(s.now >= s.patients[sender].lastRewardTimestamp + ONE_DAY)
    THEN Revert(s, "Reward not yet available")
    ELSE IF ~(s.sonic[Core] >= DATA_MONETIZATION_REWARD)
    THEN Revert(s, "Insufficient SONIC tokens")
    ELSE LET tr == tokenTransfer(s.sonic, Core, sender, DATA_MONETIZATION_REWARD, tok)
         IN  IF tr.ret = "throws"
             THEN WithTok(Revert(s, ERR_TOKEN), tr.ret)
             ELSE WithTok(Return([s EXCEPT !.sonic = tr.bal],
                                 <<Event("DataRewardClaimed", DATA_MONETIZATION_REWARD,
                                         sender)>>),
                          tr.ret)

\* claimDataReward that asks for strictly more than one reward in the treasury.
claimDataReward_StrictBalance(s, sender, tok) ==
    IF ~hasRole(s, PATIENT_ROLE, sender)
    THEN Revert(s, ERR_ROLE)
    ELSE IF s.entered
    THEN Revert(s, ERR_REENTRANT)
    ELSE IF s.patients[sender].dataSharing # "Enabled"
    THEN Revert(s, "Data sharing not enabled")
    ELSE IF ~(s.now >= s.patients[sender].lastRewardTimestamp + ONE_DAY)
    THEN Revert(s, "Reward not yet available")
    ELSE IF ~(s.sonic[Core] > DATA_MONETIZATION_REWARD)
    THEN Revert(s, "Insufficient SONIC tokens")
    ELSE LET s1 == [s EXCEPT !.patients[sender].lastRewardTimestamp = s.now]
             tr == tokenTransfer(s1.sonic, Core, sender, DATA_MONETIZATION_REWARD, tok)
         IN  IF tr.ret = "throws"
             THEN WithTok(Revert(s, ERR_TOKEN), tr.ret)
             ELSE WithTok(Return([s1 EXCEPT !.sonic = tr.bal],
                                 <<Event("DataRewardClaimed", DATA_MONETIZATION_REWARD,
                                         sender)>>),
                          tr.ret)

\* claimDataReward without nonReentrant.
claimDataReward_NoGuard(s, sender, tok) ==
    IF ~hasRole(s, PATIENT_ROLE, sender)
    THEN Revert(s, ERR_ROLE)
    ELSE IF s.patients[sender].dataSharing # "Enabled"
    THEN Revert(s, "Data sharing not enabled")
    ELSE IF ~(s.now >= s.patients[sender].lastRewardTimestamp + ONE_DAY)
    THEN Revert(s, "Reward not yet available")
    ELSE IF ~(s.sonic[Core] >= DATA_MONETIZATION_REWARD)
    THEN Revert(s, "Insufficient SONIC tokens")
    ELSE LET s1 == [s EXCEPT !.patients[sender].lastRewardTimestamp = s.now]
             tr == tokenTransfer(s1.sonic, Core, sender, DATA_MONETIZATION_REWARD, tok)
         IN  IF tr.ret = "throws"
             THEN WithTok(Revert(s, ERR_TOKEN), tr.ret)
             ELSE WithTok(Return([s1 EXCEPT !.sonic = tr.bal],
                                 <<Event("DataRewardClaimed", DATA_MONETIZATION_REWARD,
                                         sender)>>),
                          tr.ret)

\* claimDataReward without the treasury balance requirement.
claimDataReward_NoTreasuryCheck(s, sender, tok) ==
    IF ~hasRole(s, PATIENT_ROLE, sender)
    THEN Revert(s, ERR_ROLE)
    ELSE IF s.entered
    THEN Revert(s, ERR_REENTRANT)
    ELSE IF s.patients[sender].dataSharing # "Enabled"
    THEN Revert(s, "Data sharing not enabled")
    ELSE IF ~(s.now >= s.patients[sender].lastRewardTimestamp + ONE_DAY)
    THEN Revert(s, "Reward not yet available")
    ELSE LET s1 == [s EXCEPT !.patients[sender].lastRewardTimestamp = s.now]
             tr == tokenTransfer(s1.sonic, Core, sender, DATA_MONETIZATION_REWARD, tok)
         IN  IF tr.ret = "throws"
             THEN WithTok(Revert(s, ERR_TOKEN), tr.ret)
             ELSE WithTok(Return([s1 EXCEPT !.sonic = tr.bal],
                                 <<Event("DataRewardClaimed", DATA_MONETIZATION_REWARD,
                                         sender)>>),
                          tr.ret)

\* claimDataReward that pays twice the reward.
claimDataReward_DoubleReward(s, sender, tok) ==
    IF ~hasRole(s, PATIENT_ROLE, sender)
    THEN Revert(s, ERR_ROLE)
    ELSE IF s.entered
    THEN Revert(s, ERR_REENTRANT)
    ELSE IF s.patients[sender].dataSharing # "Enabled"
    THEN Revert(s, "Data sharing not enabled")
    ELSE IF ~(s.now >= s.patients[sender].lastRewardTimestamp + ONE_DAY)
    THEN Revert(s, "Reward not yet available")
    ELSE IF ~(s.sonic[Core] >= DATA_MONETIZATION_REWARD)
    THEN Revert(s, "Insufficient SONIC tokens")
    ELSE LET s1 == [s EXCEPT !.patients[sender].lastRewardTimestamp = s.now]
             tr == tokenTransfer(s1.sonic, Core, sender, 2 * DATA_MONETIZATION_REWARD, tok)
         IN  IF tr.ret = "throws"
             THEN WithTok(Revert(s, ERR_TOKEN), tr.ret)
             ELSE WithTok(Return([s1 EXCEPT !.sonic = tr.bal],
                                 <<Event("DataRewardClaimed", DATA_MONETIZATION_REWARD,
                                         sender)>>),
                          tr.ret)

\* claimDataReward: the return value of sonicToken.transfer is not read.
claimDataReward(s, sender, tok) ==
    IF ~hasRole(s, PATIENT_ROLE, sender)
    THEN Revert(s, ERR_ROLE)
    ELSE IF s.entered
    THEN Revert(s, ERR_REENTRANT)
    ELSE IF s.patients[sender].dataSharing # "Enabled"
    THEN Revert(s, "Data sharing not enabled")
    ELSE IF ~(s.now >= s.patients[sender].lastRewardTimestamp + ONE_DAY)
    THEN Revert(s, "Reward not yet available")
    ELSE IF ~(s.sonic[Core] >= DATA_MONETIZATION_REWARD)
    THEN Revert(s, "Insufficient SONIC tokens")
    ELSE LET s1 == [s EXCEPT !.patients[sender].lastRewardTimestamp = s.now]
             tr == tokenTransfer(s1.sonic, Core, sender, DATA_MONETIZATION_REWARD, tok)
         IN  IF tr.ret = "throws"
             THEN WithTok(Revert(s, ERR_TOKEN), tr.ret)
             ELSE WithTok(Return([s1 EXCEPT !.sonic = tr.bal],
                                 <<Event("DataRewardClaimed", DATA_MONETIZATION_REWARD,
                                         sender)>>),
                          tr.ret)

\* --------------------------------------------------------- doctor functions
\* confirmAppointment that any doctor may call for any appointment.
confirmAppointment_AnyDoctor(s, sender, id) ==
    IF ~hasRole(s, DOCTOR_ROLE, sender)
    THEN Revert(s, ERR_ROLE)
    ELSE IF FALSE
    THEN Revert(s, "Not your appointment")
    ELSE IF s.appointments[id].status # "Pending"
    THEN Revert(s, "Not pending")
    ELSE Return([s EXCEPT !.appointments[id].status = "Confirmed"],
                IF s.appointments[id].isVideoCall
                THEN <<Event("VideoCallStarted", id, ZeroAddr)>>
                ELSE <<>>)

confirmAppointment(s, sender, id) ==
    IF ~hasRole(s, DOCTOR_ROLE, sender)
    THEN Revert(s, ERR_ROLE)
    ELSE IF s.appointments[id].doctor # sender
    THEN Revert(s, "Not your appointment")
    ELSE IF s.appointments[id].status # "Pending"
    THEN Revert(s, "Not pending")
    ELSE Return([s EXCEPT !.appointments[id].status = "Confirmed"],
                IF s.appointments[id].isVideoCall
                THEN <<Event("VideoCallStarted", id, ZeroAddr)>>
                ELSE <<>>)

orderLabTest(s, sender, patient, testType, tok) ==
    IF ~hasRole(s, DOCTOR_ROLE, sender)
    THEN Revert(s, ERR_ROLE)
    ELSE IF ~s.patients[patient].isRegistered
    THEN Revert(s, "Patient not registered")
    ELSE LET n == s.labTestCounter + 1
             s1 == [s EXCEPT
                      !.labTestCounter = n,
                      !.labTestOrders[n] =
                          [id |-> n, patient |-> patient, doctor |-> sender,
                           labTech |-> ZeroAddr, status |-> "Requested",
                           testType |-> testType, sampleCollectionIpfsHash |-> "",
                           resultsIpfsHash |-> "", orderedTimestamp |-> s.now,
                           completedTimestamp |-> 0]]
             m == monetizeData(s1, patient, tok)
         IN  IF ~m.ok
             THEN WithTok(Revert(s, m.err), m.tok)
             ELSE WithTok(Return(m.s, <<Event("LabTestOrdered", n, patient)>> \o m.ev), m.tok)

\* keccak256: a one-way, injective image; a digest is never its own preimage.
keccak256(x) == <<"keccak256", x>>

\* keccak256(abi.encodePacked(prescriptionCounter, msg.sender, block.timestamp)).
codeHash(counter, sender, timestamp) == keccak256(<<counter, sender, timestamp>>)

\* reviewLabResults that reviews an order in any status.
reviewLabResults_AnyStatus(s, sender, id, medication, ipfsHash, tok) ==
    IF ~hasRole(s, DOCTOR_ROLE, sender)
    THEN Revert(s, ERR_ROLE)
    ELSE IF s.labTestOrders[id].doctor # sender
    THEN Revert(s, "Not your order")
    ELSE IF FALSE
    THEN Revert(s, "Results not uploaded")
    ELSE LET n == s.prescriptionCounter + 1
             patient == s.labTestOrders[id].patient
             s1 == [s EXCEPT
                      !.labTestOrders[id].status = "Reviewed",
                      !.labTestOrders[id].completedTimestamp = s.now,
                      !.prescriptionCounter = n,
                      !.prescriptions[n] =
                          [id |-> n, patient |-> patient, doctor |-> sender,
                           verificationCodeHash |-> codeHash(n, sender, s.now),
                           medicationDetails |-> medication,
                           prescriptionIpfsHash |-> ipfsHash, status |-> "Generated",
                           pharmacy |-> ZeroAddr, generatedTimestamp |-> s.now,
                           expirationTimestamp |-> s.now + THIRTY_DAYS]]
             m == monetizeData(s1, patient, tok)
         IN  IF ~m.ok
             THEN WithTok(Revert(s, m.err), m.tok)
             ELSE WithTok(Return(m.s, <<Event("PrescriptionGenerated", n, patient)>> \o m.ev), m.tok)

reviewLabResults(s, sender, id, medication, ipfsHash, tok) ==
    IF ~hasRole(s, DOCTOR_ROLE, sender)
    THEN Revert(s, ERR_ROLE)
    ELSE IF s.labTestOrders[id].doctor # sender
    THEN Revert(s, "Not your order")
    ELSE IF s.labTestOrders[id].status # "ResultsUploaded"
    THEN Revert(s, "Results not uploaded")
    ELSE LET n == s.prescriptionCounter + 1
             patient == s.labTestOrders[id].patient
             s1 == [s EXCEPT
                      !.labTestOrders[id].status = "Reviewed",
                      !.labTestOrders[id].completedTimestamp = s.now,
                      !.prescriptionCounter = n,
                      !.prescriptions[n] =
                          [id |-> n, patient |-> patient, doctor |-> sender,
                           verificationCodeHash |-> codeHash(n, sender, s.now),
                           medicationDetails |-> medication,
                           prescriptionIpfsHash |-> ipfsHash, status |-> "Generated",
                           pharmacy |-> ZeroAddr, generatedTimestamp |-> s.now,
                           expirationTimestamp |-> s.now + THIRTY_DAYS]]
             m == monetizeData(s1, patient, tok)
         IN  IF ~m.ok
             THEN WithTok(Revert(s, m.err), m.tok)
             ELSE WithTok(Return(m.s, <<Event("PrescriptionGenerated", n, patient)>> \o m.ev), m.tok)

reviewAISymptomAnalysis(s, sender, id, ipfsHash) ==
    IF ~hasRole(s, DOCTOR_ROLE, sender)
    THEN Revert(s, ERR_ROLE)
    ELSE IF s.aiAnalyses[id].doctorReviewed
    THEN Revert(s, "Already reviewed")
    ELSE Return([s EXCEPT !.aiAnalyses[id].analysisIpfsHash = ipfsHash,
                          !.aiAnalyses[id].doctorReviewed = TRUE], <<>>)

\* ------------------------------------------------- lab technician functions
collectSample(s, sender, id, ipfsHash) ==
    IF ~hasRole(s, LAB_TECH_ROLE, sender)
    THEN Revert(s, ERR_ROLE)
    ELSE IF s.labTestOrders[id].status # "Requested"
    THEN Revert(s, "Invalid status")
    ELSE Return([s EXCEPT !.labTestOrders[id].labTech = sender,
                          !.labTestOrders[id].sampleCollectionIpfsHash = ipfsHash,
                          !.labTestOrders[id].status = "Collected"], <<>>)

\* uploadLabResults that any technician may call.
uploadLabResults_AnyTech(s, sender, id, ipfsHash, tok) ==
    IF ~hasRole(s, LAB_TECH_ROLE, sender)
    THEN Revert(s, ERR_ROLE)
    ELSE IF FALSE
    THEN Revert(s, "Not your order")
    ELSE IF s.labTestOrders[id].status # "Collected"
    THEN Revert(s, "Sample not collected")
    ELSE LET s1 == [s EXCEPT !.labTestOrders[id].resultsIpfsHash = ipfsHash,
                             !.labTestOrders[id].status = "ResultsUploaded"]
             m == monetizeData(s1, s.labTestOrders[id].patient, tok)
         IN  IF ~m.ok
             THEN WithTok(Revert(s, m.err), m.tok)
             ELSE WithTok(Return(m.s, <<Event("LabTestResultsUploaded", id, ZeroAddr)>> \o m.ev), m.tok)

uploadLabResults(s, sender, id, ipfsHash, tok) ==
    IF ~hasRole(s, LAB_TECH_ROLE, sender)
    THEN Revert(s, ERR_ROLE)
    ELSE IF s.labTestOrders[id].labTech # sender
    THEN Revert(s, "Not your order")
    ELSE IF s.labTestOrders[id].status # "Collected"
    THEN Revert(s, "Sample not collected")
    ELSE LET s1 == [s EXCEPT !.labTestOrders[id].resultsIpfsHash = ipfsHash,
                             !.labTestOrders[id].status = "ResultsUploaded"]
             m == monetizeData(s1, s.labTestOrders[id].patient, tok)
         IN  IF ~m.ok
             THEN WithTok(Revert(s, m.err), m.tok)
             ELSE WithTok(Return(m.s, <<Event("LabTestResultsUploaded", id, ZeroAddr)>> \o m.ev), m.tok)

\* -------------------------------------------------------- pharmacy functions
\* verifyPrescription that accepts any code.
verifyPrescription_AnyCode(s, sender, id, code) ==
    IF ~hasRole(s, PHARMACY_ROLE, sender)
    THEN Revert(s, ERR_ROLE)
    ELSE IF s.prescriptions[id].status # "Generated"
    THEN Revert(s, "Invalid status")
    ELSE IF FALSE
    THEN Revert(s, "Invalid code")
    ELSE Return([s EXCEPT !.prescriptions[id].status = "Verified",
                          !.prescriptions[id].pharmacy = sender],
                <<Event("PrescriptionVerified", id, sender)>>)

verifyPrescription(s, sender, id, code) ==
    IF ~hasRole(s, PHARMACY_ROLE, sender)
    THEN Revert(s, ERR_ROLE)
    ELSE IF s.prescriptions[id].status # "Generated"
    THEN Revert(s, "Invalid status")
    ELSE IF s.prescriptions[id].verificationCodeHash # code
    THEN Revert(s, "Invalid code")
    ELSE Return([s EXCEPT !.prescriptions[id].status = "Verified",
                          !.prescriptions[id].pharmacy = sender],
                <<Event("PrescriptionVerified", id, sender)>>)

\* fulfillPrescription without the expiration requirement.
fulfillPrescription_NoExpiry(s, sender, id) ==
    IF ~hasRole(s, PHARMACY_ROLE, sender)
    THEN Revert(s, ERR_ROLE)
    ELSE IF s.prescriptions[id].pharmacy # sender
    THEN Revert(s, "Not your prescription")
    ELSE IF s.prescriptions[id].status # "Verified"
    THEN Revert(s, "Not verified")
    ELSE Return([s EXCEPT !.prescriptions[id].status = "Fulfilled"],
                <<Event("PrescriptionFulfilled", id, sender)>>)

\* fulfillPrescription that any pharmacy may call.
fulfillPrescription_AnyPharmacy(s, sender, id) ==
    IF ~hasRole(s, PHARMACY_ROLE, sender)
    THEN Revert(s, ERR_ROLE)
    ELSE IF FALSE
    THEN Revert(s, "Not your prescription")
    ELSE IF s.prescriptions[id].status # "Verified"
    THEN Revert(s, "Not verified")
    ELSE IF ~(s.now <= s.prescriptions[id].expirationTimestamp)
    THEN Revert(s, "Expired")
    ELSE Return([s EXCEPT !.prescriptions[id].status = "Fulfilled"],
                <<Event("PrescriptionFulfilled", id, sender)>>)

fulfillPrescription(s, sender, id) ==
    IF ~hasRole(s, PHARMACY_ROLE, sender)
    THEN Revert(s, ERR_ROLE)
    ELSE IF s.prescriptions[id].pharmacy # sender
    THEN Revert(s, "Not your prescription")
    ELSE IF s.prescriptions[id].status # "Verified"
    THEN Revert(s, "Not verified")
    ELSE IF ~(s.now <= s.prescriptions[id].expirationTimestamp)
    THEN Revert(s, "Expired")
    ELSE Return([s EXCEPT !.prescriptions[id].status = "Fulfilled"],
                <<Event("PrescriptionFulfilled", id, sender)>>)

\* ------------------------------------------------------------ view functions
\* The first loop of getPatientAppointments, from index i on: result has
\* appointmentCounter slots and count of them are filled.
RECURSIVE scanAppointments(_, _, _, _)
scanAppointments(s, patient, i, acc) ==
    IF ~(i <= s.appointmentCounter)
    THEN acc
    ELSE scanAppointments(s, patient, i + 1,
             IF s.appointments[i].patient = patient
             THEN [result |-> [acc.result EXCEPT ![acc.count + 1] = s.appointments[i]],
                   count |-> acc.count + 1]
             ELSE acc)

\* The second loop: the first count slots, copied in order.
trimmed(result, count) == [k \in 1..count |-> result[k]]

\* getPatientAppointments that returns the result array without trimming it.
getPatientAppointments_Untrimmed(s, patient) ==
    LET acc == scanAppointments(s, patient, 1,
                   [result |-> [k \in 1..s.appointmentCounter |-> NoAppointment],
                    count |-> 0])
    IN  [ret |-> acc.result, s |-> s]

getPatientAppointments(s, patient) ==
    LET acc == scanAppointments(s, patient, 1,
                   [result |-> [k \in 1..s.appointmentCounter |-> NoAppointment],
                    count |-> 0])
    IN  [ret |-> trimmed(acc.result, acc.count), s |-> s]

\* ---------------------------------------------------------- relay functions
\* AccessControl.renounceRole(role, account): a holder gives up its own role.
renounceRole(s, sender, role, account) ==
    IF account # sender
    THEN Revert(s, "AccessControl: can only renounce roles for self")
    ELSE Return([s EXCEPT !.roles[role] = @ \ {account}], <<>>)

\* Call data: the selector fn and its arguments, by position. who: the address
\* argument, id: the numeric one, arg: the string / enum one, code: the bytes32 one.
Call(fn, who, id, arg, code) == [fn |-> fn, who |-> who, id |-> id, arg |-> arg, code |-> code]

\* The selectors of the contract's state-changing external functions, the
\* inherited AccessControl ones included. There is no pause or unpause among them.
EntryPoints ==
    {"grantRole", "revokeRole", "renounceRole", "verifyDoctor", "verifyLabTechnician",
     "registerPharmacy", "registerPatient", "bookAppointment",
     "requestAISymptomAnalysis", "toggleDataMonetization", "claimDataReward",
     "handleUserOp", "confirmAppointment", "orderLabTest", "reviewLabResults",
     "reviewAISymptomAnalysis", "collectSample", "uploadLabResults",
     "verifyPrescription", "fulfillPrescription"}

\* A message call without value from sender to the contract: the function that
\* c.fn selects runs with msg.sender = sender; an unknown selector reverts (the
\* contract has no fallback). handleUserOp is dispatched by its callers below.
dispatch(s, sender, c, tok) ==
    CASE c.fn = "grantRole" -> grantRole(s, sender, c.arg, c.who)
      [] c.fn = "revokeRole" -> revokeRole(s, sender, c.arg, c.who)
      [] c.fn = "renounceRole" -> renounceRole(s, sender, c.arg, c.who)
      [] c.fn = "verifyDoctor" -> verifyDoctor(s, sender, c.who, c.arg, c.id)
      [] c.fn = "verifyLabTechnician" -> verifyLabTechnician(s, sender, c.who, c.arg)
      [] c.fn = "registerPharmacy" -> registerPharmacy(s, sender, c.who, c.arg)
      [] c.fn = "registerPatient" -> registerPatient(s, sender, c.arg)
      [] c.fn = "bookAppointment" ->
            bookAppointment(s, sender, c.who, c.id, c.arg, TRUE, "link", 0, tok, TRUE)
      [] c.fn = "requestAISymptomAnalysis" -> requestAISymptomAnalysis(s, sender, c.arg, tok)
      [] c.fn = "toggleDataMonetization" -> toggleDataMonetization(s, sender, c.id = 1)
      [] c.fn = "claimDataReward" -> claimDataReward(s, sender, tok)
      [] c.fn = "confirmAppointment" -> confirmAppointment(s, sender, c.id)
      [] c.fn = "orderLabTest" -> orderLabTest(s, sender, c.who, c.arg, tok)
      [] c.fn = "reviewLabResults" -> reviewLabResults(s, sender, c.id, "medication", c.arg, tok)
      [] c.fn = "reviewAISymptomAnalysis" -> reviewAISymptomAnalysis(s, sender, c.id, c.arg)
      [] c.fn = "collectSample" -> collectSample(s, sender, c.id, c.arg)
      [] c.fn = "uploadLabResults" -> uploadLabResults(s, sender, c.id, c.arg, tok)
      [] c.fn = "verifyPrescription" -> verifyPrescription(s, sender, c.id, c.code)
      [] c.fn = "fulfillPrescription" -> fulfillPrescription(s, sender, c.id)
      [] OTHER -> Revert(s, "unknown selector")

\* onlyEntryPoint
onlyEntryPoint(s, sender) == sender = EntryPointAddr

\* address(this).call(_userOp.callData): the contract calls itself, so the
\* function selected runs with msg.sender = address(this). A nested
\* handleUserOp stops at onlyEntryPoint.
selfCall(s, c, tok) ==
    IF c.fn = "handleUserOp"
    THEN IF onlyEntryPoint(s, Core)
         THEN Revert(s, "Invalid sender")
         ELSE Revert(s, "Only entry point allowed")
    ELSE dispatch(s, Core, c, tok)

\* handleUserOp that does not look at the success flag of the inner call.
handleUserOp_IgnoreFailure(s, sender, opSender, callData, tok, relayOk) ==
    IF ~onlyEntryPoint(s, sender)
    THEN Revert(s, "Only entry point allowed")
    ELSE IF ~(opSender = sender \/ hasRole(s, PATIENT_ROLE, opSender))
    THEN Revert(s, "Invalid sender")
    ELSE LET inner == selfCall(s, callData, tok)
         IN  IF ~relayOk
             THEN WithTok(Revert(s, "entryPoint.handleOps reverted"), inner.tok)
             ELSE WithTok(Return(inner.s, inner.ev), inner.tok)

\* handleUserOp(_userOp) for _userOp.sender = opSender and _userOp.callData =
\* callData. relayOk: whether the closing entryPoint.handleOps call returns.
handleUserOp(s, sender, opSender, callData, tok, relayOk) ==
    IF ~onlyEntryPoint(s, sender)
    THEN Revert(s, "Only entry point allowed")
    ELSE IF ~(opSender = sender \/ hasRole(s, PATIENT_ROLE, opSender))
    THEN Revert(s, "Invalid sender")
    ELSE LET inner == selfCall(s, callData, tok)
         IN  IF ~inner.ok
             THEN WithTok(Revert(s, "User operation failed"), inner.tok)
             ELSE IF ~relayOk
             THEN WithTok(Revert(s, "entryPoint.handleOps reverted"), inner.tok)
             ELSE WithTok(Return(inner.s, inner.ev), inner.tok)

\* ------------------------------------------------------------ construction
\* Tokens minted to the deployer by the token contracts (whole tokens), and
\* native funds each user account starts with.
SonicSupply == 2 * DATA_MONETIZATION_REWARD
UsdcPerUser == 2
EthPerUser == 3

\* No call is in flight: the frame of a call that waits for an external party
\* to return names the function, its caller and arguments, the party called
\* ("refund": the caller receiving native currency, "usdc" / "sonic": the token
\* contract) and the state to return to when the transaction reverts.
NoFrame ==
    [fn |-> "none", sender |-> ZeroAddr, doctor |-> ZeroAddr, timestamp |-> 0,
     ptype |-> "ETH", party |-> "none", snap |-> <<>>]

\* initialize(): the deployer holds ADMIN_ROLE; every mapping and counter is zero.
Init ==
    /\ roles = [r \in Roles |-> IF r = ADMIN_ROLE THEN {Admin} ELSE {}]
    /\ paused = FALSE
    /\ entered = FALSE
    /\ patients = [a \in Addr |-> NoPatient]
    /\ doctors = [a \in Addr |-> NoDoctor]
    /\ labTechnicians = [a \in Addr |-> NoLabTechnician]
    /\ pharmacies = [a \in Addr |-> NoPharmacy]
    /\ appointments = [i \in ApptIds |-> NoAppointment]
    /\ labTestOrders = [i \in LabIds |-> NoLabTestOrder]
    /\ prescriptions = [i \in LabIds |-> NoPrescription]
    /\ aiAnalyses = [i \in AIIds |-> NoAnalysis]
    /\ appointmentCounter = 0
    /\ labTestCounter = 0
    /\ prescriptionCounter = 0
    /\ aiAnalysisCounter = 0
    /\ eth = [a \in Addr |-> IF a \in Users THEN EthPerUser ELSE 0]
    /\ usdc = [a \in Addr |-> IF a \in Users THEN UsdcPerUser ELSE 0]
    /\ sonic = [a \in Addr |-> IF a = Admin THEN SonicSupply ELSE 0]
    /\ now = DeployTime
    /\ paidAt = [a \in Addr |-> 0]
    /\ paidBy = [a \in Addr |-> "none"]
    /\ pending = NoFrame

\* A reward payout reached account a in the call with result r: the contract
\* emitted DataRewardClaimed for a and the token moved the reward to a.
Paid(r, a) ==
    /\ r.ok
    /\ \E i \in 1..Len(r.ev) : r.ev[i] = Event("DataRewardClaimed", DATA_MONETIZATION_REWARD, a)
    /\ r.s.sonic[a] = sonic[a] + DATA_MONETIZATION_REWARD

\* The transaction's outcome becomes the state; a reverted call changes nothing.
Commit(op, r) ==
    IF r.ok
    THEN /\ roles' = r.s.roles
         /\ paused' = r.s.paused
         /\ entered' = r.s.entered
         /\ patients' = r.s.patients
         /\ doctors' = r.s.doctors
         /\ labTechnicians' = r.s.labTechnicians
         /\ pharmacies' = r.s.pharmacies
         /\ appointments' = r.s.appointments
         /\ labTestOrders' = r.s.labTestOrders
         /\ prescriptions' = r.s.prescriptions
         /\ aiAnalyses' = r.s.aiAnalyses
         /\ appointmentCounter' = r.s.appointmentCounter
         /\ labTestCounter' = r.s.labTestCounter
         /\ prescriptionCounter' = r.s.prescriptionCounter
         /\ aiAnalysisCounter' = r.s.aiAnalysisCounter
         /\ eth' = r.s.eth
         /\ usdc' = r.s.usdc
         /\ sonic' = r.s.sonic
         /\ now' = now
         /\ paidAt' = [a \in Addr |-> IF Paid(r, a) THEN now ELSE paidAt[a]]
         /\ paidBy' = [a \in Addr |-> IF Paid(r, a) THEN op ELSE paidBy[a]]
         /\ pending' = pending
    ELSE UNCHANGED vars

\* ----------------------------------------------------------------- actions
\* One transaction per action: the caller and the arguments are the action's
\* parameters, chosen by the next-state relations below.

TxGrantRole(sender, role, account) ==
    Commit("grantRole", grantRole(Store, sender, role, account))

TxRevokeRole(sender, role, account) ==
    Commit("revokeRole", revokeRole(Store, sender, role, account))

TxVerifyDoctor(sender, doctor, license, fee) ==
    Commit("verifyDoctor", verifyDoctor(Store, sender, doctor, license, fee))

TxVerifyLabTechnician(sender, labTech, license) ==
    Commit("verifyLabTechnician", verifyLabTechnician(Store, sender, labTech, license))

TxRegisterPharmacy(sender, pharmacy, license) ==
    Commit("registerPharmacy", registerPharmacy(Store, sender, pharmacy, license))

TxRegisterPatient(sender, key) ==
    Commit("registerPatient", registerPatient(Store, sender, key))

\* msg.value is credited to the contract before the body runs and returns to the
\* caller when the call reverts.
\* The storage a payable call starts from: msg.value moved to the contract.
WithValue(s, sender, value) ==
    [s EXCEPT !.eth[sender] = @ - value, !.eth[Core] = @ + value]

TxBookAppointment(sender, doctor, timestamp, ptype, isVideoCall, value, tok, refundOk) ==
    /\ eth[sender] >= value
    /\ LET r == bookAppointment(WithValue(Store, sender, value), sender, doctor, timestamp,
                                ptype, isVideoCall, "link", value, tok, refundOk)
       IN  /\ r.ok => appointmentCounter < MaxAppt
           /\ Commit("bookAppointment", r)

TxRequestAISymptomAnalysis(sender, tok) ==
    LET r == requestAISymptomAnalysis(Store, sender, "symptoms", tok)
    IN  /\ r.ok => aiAnalysisCounter < MaxAI
        /\ Commit("requestAISymptomAnalysis", r)

TxToggleDataMonetization(sender, enable) ==
    Commit("toggleDataMonetization", toggleDataMonetization(Store, sender, enable))

TxClaimDataReward(sender, tok) ==
    Commit("claimDataReward", claimDataReward(Store, sender, tok))

TxConfirmAppointment(sender, id) ==
    Commit("confirmAppointment", confirmAppointment(Store, sender, id))

TxOrderLabTest(sender, patient, tok) ==
    LET r == orderLabTest(Store, sender, patient, "blood", tok)
    IN  /\ r.ok => labTestCounter < MaxLab
        /\ Commit("orderLabTest", r)

TxReviewLabResults(sender, id, tok) ==
    Commit("reviewLabResults", reviewLabResults(Store, sender, id, "medication", "QmRx", tok))

TxReviewAISymptomAnalysis(sender, id) ==
    Commit("reviewAISymptomAnalysis", reviewAISymptomAnalysis(Store, sender, id, "QmAnalysis"))

TxCollectSample(sender, id) ==
    Commit("collectSample", collectSample(Store, sender, id, "QmSample"))

TxUploadLabResults(sender, id, tok) ==
    Commit("uploadLabResults", uploadLabResults(Store, sender, id, "QmResults", tok))

TxVerifyPrescription(sender, id, code) ==
    Commit("verifyPrescription", verifyPrescription(Store, sender, id, code))

TxFulfillPrescription(sender, id) ==
    Commit("fulfillPrescription", fulfillPrescription(Store, sender, id))

TxRenounceRole(sender, role) ==
    Commit("renounceRole", renounceRole(Store, sender, role, sender))

TxHandleUserOp(sender, opSender, callData, tok, relayOk) ==
    LET r == handleUserOp(Store, sender, opSender, callData, tok, relayOk)
    IN  /\ r.ok => /\ r.s.aiAnalysisCounter <= MaxAI
                   /\ r.s.appointmentCounter <= MaxAppt
                   /\ r.s.labTestCounter <= MaxLab
        /\ Commit("handleUserOp", r)

\* The token holder funds the reward treasury: sonicToken.transfer(core, amount),
\* a call on the token contract, not on the core.
FundTreasury(holder, amount) ==
    /\ sonic[holder] >= amount
    /\ Commit("fundTreasury", Return([Store EXCEPT !.sonic[holder] = @ - amount, !.sonic[Core] = @ + amount],
                     <<>>))

\* A later block: block.timestamp advances by half a day.
Tick ==
    /\ now + HalfDay <= DeployTime + MaxHalfDays * HalfDay
    /\ now' = now + HalfDay
    /\ UNCHANGED <<roles, paused, entered, patients, doctors, labTechnicians, pharmacies,
                   appointments, labTestOrders, prescriptions, aiAnalyses,
                   appointmentCounter, labTestCounter, prescriptionCounter,
                   aiAnalysisCounter, eth, usdc, sonic, paidAt, paidBy, pending>>

\* ------------------------------------------------- calls to external parties
\* A function that calls out (native refund, token transfer) is taken in two
\* steps: CallOut runs it up to the external call and leaves a frame, Return
\* runs the rest when the external party returns or throws. Between the two the
\* party called may call back into the contract (the Tx actions, nested).
Write(s) ==
    /\ roles' = s.roles
    /\ paused' = s.paused
    /\ entered' = s.entered
    /\ patients' = s.patients
    /\ doctors' = s.doctors
    /\ labTechnicians' = s.labTechnicians
    /\ pharmacies' = s.pharmacies
    /\ appointments' = s.appointments
    /\ labTestOrders' = s.labTestOrders
    /\ prescriptions' = s.prescriptions
    /\ aiAnalyses' = s.aiAnalyses
    /\ appointmentCounter' = s.appointmentCounter
    /\ labTestCounter' = s.labTestCounter
    /\ prescriptionCounter' = s.prescriptionCounter
    /\ aiAnalysisCounter' = s.aiAnalysisCounter
    /\ eth' = s.eth
    /\ usdc' = s.usdc
    /\ sonic' = s.sonic
    /\ now' = now

Frame(fn, sender, doctor, timestamp, ptype, party) ==
    [fn |-> fn, sender |-> sender, doctor |-> doctor, timestamp |-> timestamp,
     ptype |-> ptype, party |-> party, snap |-> <<Store, paidAt, paidBy>>]

\* The transaction reverts: every change since the top-level call began is undone.
RevertToSnapshot ==
    /\ Write(pending.snap[1])
    /\ paidAt' = pending.snap[2]
    /\ paidBy' = pending.snap[3]
    /\ pending' = NoFrame

\* bookAppointment up to the external call of _processPayment: nonReentrant has
\* taken the guard, the requirements hold, msg.value is with the contract, and
\* the refund is on its way to the caller or transferFrom has been called.
CallOutBookAppointment(sender, doctor, timestamp, ptype, value) ==
    LET fee == doctors[doctor].consultationFee
        s0 == WithValue(Store, sender, value)
    IN  /\ pending.fn = "none"
        /\ eth[sender] >= value
        /\ hasRole(Store, PATIENT_ROLE, sender)
        /\ ~entered
        /\ doctors[doctor].isVerified
        /\ timestamp > now + MIN_BOOKING_BUFFER
        /\ ptype = "ETH" => value > fee
        /\ pending' = Frame("bookAppointment", sender, doctor, timestamp, ptype,
                            CASE ptype = "ETH" -> "refund"
                              [] ptype = "USDC" -> "usdc"
                              [] OTHER -> "sonic")
        /\ Write(IF ptype = "ETH"
                 THEN [s0 EXCEPT !.entered = TRUE,
                                 !.eth[Core] = @ - (value - fee),
                                 !.eth[sender] = @ + (value - fee)]
                 ELSE [s0 EXCEPT !.entered = TRUE])
        /\ UNCHANGED <<paidAt, paidBy>>

\* The rest of bookAppointment once the external call is over. ret: the
\* caller accepted the refund / the token's answer to transferFrom.
ReturnBookAppointment(tok) ==
    LET f == pending
        fee == doctors[f.doctor].consultationFee
        tr == IF f.ptype = "USDC"
              THEN tokenTransfer(usdc, f.sender, Core, fee, tok)
              ELSE tokenTransfer(sonic, f.sender, Core, fee, tok)
        paidUp == IF f.ptype = "ETH" THEN tok = "moves" ELSE tr.ret = "true"
        n == appointmentCounter + 1
        s1 == CASE f.ptype = "USDC" -> [Store EXCEPT !.usdc = tr.bal]
                [] f.ptype = "SONIC" -> [Store EXCEPT !.sonic = tr.bal]
                [] OTHER -> Store
    IN  /\ f.fn = "bookAppointment"
        /\ IF paidUp
           THEN /\ n <= MaxAppt
                /\ Write([s1 EXCEPT
                            !.appointmentCounter = n,
                            !.appointments[n] =
                                [id |-> n, patient |-> f.sender, doctor |-> f.doctor,
                                 scheduledTimestamp |-> f.timestamp, status |-> "Pending",
                                 fee |-> fee, paymentType |-> f.ptype,
                                 videoCallLink |-> "link", isVideoCall |-> TRUE],
                            !.patients[f.sender].mediPoints = @ + MEDIPOINTS_BOOKING,
                            !.entered = FALSE])
                /\ pending' = NoFrame
                /\ UNCHANGED <<paidAt, paidBy>>
           ELSE RevertToSnapshot

\* claimDataReward up to sonicToken.transfer: the guard is taken, the
\* requirements hold and lastRewardTimestamp is written.
CallOutClaimDataReward(sender) ==
    /\ pending.fn = "none"
    /\ hasRole(Store, PATIENT_ROLE, sender)
    /\ ~entered
    /\ patients[sender].dataSharing = "Enabled"
    /\ now >= patients[sender].lastRewardTimestamp + ONE_DAY
    /\ sonic[Core] >= DATA_MONETIZATION_REWARD
    /\ pending' = Frame("claimDataReward", sender, ZeroAddr, 0, "SONIC", "sonic")
    /\ Write([Store EXCEPT !.entered = TRUE,
                           !.patients[sender].lastRewardTimestamp = now])
    /\ UNCHANGED <<paidAt, paidBy>>

\* requestAISymptomAnalysis up to sonicToken.transfer in _monetizeData: the
\* analysis is recorded and the reward is due; the function takes no guard.
CallOutRequestAISymptomAnalysis(sender) ==
    LET n == aiAnalysisCounter + 1
    IN  /\ pending.fn = "none"
        /\ n <= MaxAI
        /\ hasRole(Store, PATIENT_ROLE, sender)
        /\ patients[sender].dataSharing = "Enabled"
        /\ now >= patients[sender].lastRewardTimestamp + ONE_DAY
        /\ pending' = Frame("requestAISymptomAnalysis", sender, ZeroAddr, 0, "SONIC", "sonic")
        /\ Write([Store EXCEPT
                    !.aiAnalysisCounter = n,
                    !.aiAnalyses[n] = [id |-> n, patient |-> sender, symptoms |-> "symptoms",
                                       analysisIpfsHash |-> "", doctorReviewed |-> FALSE],
                    !.patients[sender].mediPoints = @ + MEDIPOINTS_ANALYSIS,
                    !.patients[sender].lastRewardTimestamp = now])
        /\ UNCHANGED <<paidAt, paidBy>>

\* sonicToken.transfer of a reward returns (its return value is not read) or
\* throws; claimDataReward then releases the guard.
ReturnReward(tok) ==
    LET f == pending
        tr == tokenTransfer(sonic, Core, f.sender, DATA_MONETIZATION_REWARD, tok)
    IN  /\ f.fn \in {"claimDataReward", "requestAISymptomAnalysis"}
        /\ IF tr.ret = "throws"
           THEN RevertToSnapshot
           ELSE /\ Write([Store EXCEPT !.sonic = tr.bal,
                                       !.entered = IF f.fn = "claimDataReward"
                                                   THEN FALSE ELSE @])
                /\ pending' = NoFrame
                /\ paidAt' = [paidAt EXCEPT ![f.sender] =
                                 IF tr.ret = "true" THEN now ELSE @]
                /\ paidBy' = [paidBy EXCEPT ![f.sender] =
                                 IF tr.ret = "true" THEN f.fn ELSE @]

\* ------------------------------------------------- lab workflow specification
\* The lab-test life cycle: patient alice, doctor drd, technicians tech1 and
\* tech2; every lab function is called by each of LabCallers (dre never holds a
\* role) on every identifier of the store.
LabCallers == {"drd", "dre", "tech1", "tech2"}

LabNext ==
    \/ TxRegisterPatient("alice", "key1")
    \/ TxVerifyDoctor(Admin, "drd", "L1", 1)
    \/ \E t \in {"tech1", "tech2"} : TxVerifyLabTechnician(Admin, t, "L1")
    \/ \E c \in LabCallers : TxOrderLabTest(c, "alice", "moves")
    \/ \E c \in LabCallers, id \in LabIds : TxCollectSample(c, id)
    \/ \E c \in LabCallers, id \in LabIds : TxUploadLabResults(c, id, "moves")
    \/ \E c \in LabCallers, id \in LabIds : TxReviewLabResults(c, id, "moves")

LabSpec == Init /\ [][LabNext]_vars

\* C1: for every lab-order identifier the stored status changes only by the
\* single steps Requested->Collected (collectSample), Collected->ResultsUploaded
\* (uploadLabResults) and ResultsUploaded->Reviewed (reviewLabResults), never
\* backward and never skipping a state; and uploadLabResults on an order that
\* has not been collected reverts.
LabStatusStep(id) ==
    LET a == labTestOrders[id].status
        b == labTestOrders'[id].status
    IN  a # b =>
          \/ /\ a = "Requested" /\ b = "Collected"
             /\ \E c \in Addr : LET r == collectSample(Store, c, id, "QmSample")
                                IN  r.ok /\ labTestOrders' = r.s.labTestOrders
          \/ /\ a = "Collected" /\ b = "ResultsUploaded"
             /\ \E c \in Addr, tok \in TokenBehaviour :
                   LET r == uploadLabResults(Store, c, id, "QmResults", tok)
                   IN  r.ok /\ labTestOrders' = r.s.labTestOrders
          \/ /\ a = "ResultsUploaded" /\ b = "Reviewed"
             /\ \E c \in Addr, tok \in TokenBehaviour :
                   LET r == reviewLabResults(Store, c, id, "medication", "QmRx", tok)
                   IN  r.ok /\ labTestOrders' = r.s.labTestOrders

UploadNeedsCollected ==
    \A id \in LabIds, c \in Addr, tok \in TokenBehaviour :
        labTestOrders[id].status # "Collected" =>
            ~uploadLabResults(Store, c, id, "QmResults", tok).ok

C1_LabStatusSingleSteps ==
    /\ []UploadNeedsCollected
    /\ [][\A id \in LabIds : LabStatusStep(id)]_vars

\* ---------------------------------------------------- reward specification
\* The reward engine: patient alice (bob never registers) enables and disables
\* data sharing, claims explicitly and submits symptom analyses while the clock
\* advances and the treasury is funded in steps of one reward.
RewardNext ==
    \/ TxRegisterPatient("alice", "key1")
    \/ \E b \in BOOLEAN : TxToggleDataMonetization("alice", b)
    \/ \E c \in {"alice", "bob"}, tok \in TokenBehaviour : TxClaimDataReward(c, tok)
    \/ \E c \in {"alice", "bob"}, tok \in TokenBehaviour : TxRequestAISymptomAnalysis(c, tok)
    \/ FundTreasury(Admin, DATA_MONETIZATION_REWARD)
    \/ Tick

RewardSpec == Init /\ [][RewardNext]_vars

\* --------------------------------------------------- trigger specification
\* Every path to a payout together: the explicit claim and the four implicit
\* triggers (symptom analysis, lab order, result upload, lab review) for patient
\* alice, with doctor drd and technician tech1 driving the issued lab orders.
MaxRewardLab == 1

TriggerNext ==
    \/ TxRegisterPatient("alice", "key1")
    \/ TxVerifyDoctor(Admin, "drd", "L1", 1)
    \/ TxVerifyLabTechnician(Admin, "tech1", "L1")
    \/ \E b \in BOOLEAN : TxToggleDataMonetization("alice", b)
    \/ \E tok \in TokenBehaviour : TxClaimDataReward("alice", tok)
    \/ \E tok \in TokenBehaviour : TxRequestAISymptomAnalysis("alice", tok)
    \/ \E tok \in TokenBehaviour :
          labTestCounter < MaxRewardLab /\ TxOrderLabTest("drd", "alice", tok)
    \/ \E id \in 1..labTestCounter : TxCollectSample("tech1", id)
    \/ \E id \in 1..labTestCounter, tok \in TokenBehaviour :
          TxUploadLabResults("tech1", id, tok)
    \/ \E id \in 1..labTestCounter, tok \in TokenBehaviour :
          TxReviewLabResults("drd", id, tok)
    \/ FundTreasury(Admin, DATA_MONETIZATION_REWARD)
    \/ Tick

TriggerSpec == Init /\ [][TriggerNext]_vars

\* C2: across the explicit claim and the four implicit triggers, two reward
\* payouts to the same patient are at least 24 hours apart, and a payout happens
\* only while the patient's data-sharing flag is Enabled.
C2_PayoutsOnePerDay ==
    [][\A a \in Users :
          sonic'[a] > sonic[a] =>
              /\ patients[a].dataSharing = "Enabled"
              /\ sonic'[a] = sonic[a] + DATA_MONETIZATION_REWARD
              /\ paidAt[a] = 0 \/ now >= paidAt[a] + ONE_DAY]_vars

\* alice was paid by the explicit claim, and a day later by an implicit trigger.
C2_Witness ==
    /\ sonic["alice"] = 2 * DATA_MONETIZATION_REWARD
    /\ paidBy["alice"] \in {"orderLabTest", "uploadLabResults", "reviewLabResults",
                            "requestAISymptomAnalysis"}
    /\ patients["alice"].lastRewardTimestamp = DeployTime + ONE_DAY

\* C3: claimDataReward called again within 24 hours of a payout reverts as too
\* soon, moves no tokens and leaves lastRewardTimestamp as it was.
C3_SecondClaimTooSoon ==
    \A p \in Users, tok \in TokenBehaviour :
        (paidAt[p] # 0 /\ now < paidAt[p] + ONE_DAY) =>
            LET r == claimDataReward(Store, p, tok)
            IN  /\ ~r.ok
                /\ r.s.sonic = sonic
                /\ r.s.patients[p].lastRewardTimestamp = patients[p].lastRewardTimestamp
                /\ (hasRole(Store, PATIENT_ROLE, p) /\ patients[p].dataSharing = "Enabled")
                      => r.err = "Reward not yet available"

\* alice has just been paid by claimDataReward, is still enabled and the treasury
\* still holds a reward: only the cooldown stops her second claim.
C3_Witness ==
    /\ paidBy["alice"] = "claimDataReward"
    /\ paidAt["alice"] = now
    /\ patients["alice"].dataSharing = "Enabled"
    /\ sonic[Core] >= DATA_MONETIZATION_REWARD
    /\ claimDataReward(Store, "alice", "moves").err = "Reward not yet available"

C5_FirstClaimSucceeds ==
    \A p \in Users :
        (/\ patients[p].isRegistered
         /\ hasRole(Store, PATIENT_ROLE, p)
         /\ patients[p].dataSharing = "Enabled"
         /\ patients[p].lastRewardTimestamp = 0
         /\ sonic[Core] >= DATA_MONETIZATION_REWARD) =>
            LET r == claimDataReward(Store, p, "moves")
            IN  /\ r.ok
                /\ r.s.sonic[p] = sonic[p] + 10
                /\ r.s.sonic[Core] = sonic[Core] - 10

\* alice claimed in the deployment block, before any symptom analysis, and holds
\* the 10 tokens, the treasury having held exactly one reward.
C5_Witness ==
    /\ paidBy["alice"] = "claimDataReward"
    /\ paidAt["alice"] = DeployTime
    /\ sonic["alice"] = 10
    /\ sonic[Core] = 0
    /\ sonic[Admin] = SonicSupply - DATA_MONETIZATION_REWARD

\* C6: the implicit reward never makes its enclosing call revert:
\* requestAISymptomAnalysis, orderLabTest, uploadLabResults and reviewLabResults
\* return whenever their own preconditions hold, whatever the treasury holds and
\* however the reward transfer ends.
C6_ImplicitRewardNeverReverts ==
    \A tok \in TokenBehaviour :
        /\ \A p \in Users :
              hasRole(Store, PATIENT_ROLE, p) =>
                  requestAISymptomAnalysis(Store, p, "symptoms", tok).ok
        /\ \A d \in Users, p \in Users :
              (hasRole(Store, DOCTOR_ROLE, d) /\ patients[p].isRegistered) =>
                  orderLabTest(Store, d, p, "blood", tok).ok
        /\ \A c \in Users, id \in LabIds :
              (/\ hasRole(Store, LAB_TECH_ROLE, c)
               /\ labTestOrders[id].labTech = c
               /\ labTestOrders[id].status = "Collected") =>
                  uploadLabResults(Store, c, id, "QmResults", tok).ok
        /\ \A d \in Users, id \in LabIds :
              (/\ hasRole(Store, DOCTOR_ROLE, d)
               /\ labTestOrders[id].doctor = d
               /\ labTestOrders[id].status = "ResultsUploaded") =>
                  reviewLabResults(Store, d, id, "medication", "QmRx", tok).ok

\* C7: in bookAppointment with a token asset and in claimDataReward, a token
\* transfer that returns false aborts the call like one that throws: the call
\* reverts, so no appointment, counter, lastRewardTimestamp or event changes.
C7_FalseReturnAborts ==
    /\ \A p \in Users :
          LET r == claimDataReward(Store, p, "returnsFalse")
          IN  r.tok = "false" => (~r.ok /\ r.ev = <<>> /\ r.s.patients = patients)
    /\ \A p \in Users, d \in Users, ptype \in {"USDC", "SONIC"} :
          LET r == bookAppointment(Store, p, d, now + 3600, ptype, TRUE, "link", 0,
                                   "returnsFalse", TRUE)
          IN  r.tok = "false" =>
                  (~r.ok /\ r.ev = <<>> /\ r.s.appointmentCounter = appointmentCounter)

\* ------------------------------------------------------ role specification
\* Registrations, verifications and role grants and revocations: alice and bob
\* register and toggle data sharing; the admin, and bob once he is made one,
\* verify participants and grant and revoke each of the five roles of bob.
RolesNext ==
    \/ \E key \in {"key1", "key2"} : TxRegisterPatient("alice", key)
    \/ TxRegisterPatient("bob", "key1")
    \/ \E c \in {Admin, "bob"} : TxVerifyDoctor(c, "drd", "L1", 1)
    \/ \E c \in {Admin, "bob"} : TxVerifyLabTechnician(c, "tech1", "L1")
    \/ \E c \in {Admin, "bob"} : TxRegisterPharmacy(c, "pharm1", "L1")
    \/ \E c \in {Admin, "bob"}, role \in Roles : TxGrantRole(c, role, "bob")
    \/ \E c \in {Admin, "bob"}, role \in Roles : TxRevokeRole(c, role, "bob")
    \/ \E c \in {"alice", "bob"}, b \in BOOLEAN : TxToggleDataMonetization(c, b)
    \/ \E c \in {"alice", "bob"}, role \in Roles : TxRenounceRole(c, role)

RolesSpec == Init /\ [][RolesNext]_vars

\* C8: every call of a role-scoped function by an identity whose participant
\* record of that kind has isRegistered / isVerified = false reverts.
C8_UnverifiedRejected ==
    \A a \in Users, tok \in TokenBehaviour :
        /\ ~patients[a].isRegistered =>
              /\ ~requestAISymptomAnalysis(Store, a, "symptoms", tok).ok
              /\ ~claimDataReward(Store, a, tok).ok
              /\ \A b \in BOOLEAN : ~toggleDataMonetization(Store, a, b).ok
              /\ \A d \in Users, ptype \in PaymentType :
                    ~bookAppointment(WithValue(Store, a, 1), a, d, now + 3600, ptype, TRUE,
                                     "link", 1, tok, TRUE).ok
        /\ ~doctors[a].isVerified =>
              /\ \A p \in Users : ~orderLabTest(Store, a, p, "blood", tok).ok
              /\ \A id \in ApptIds : ~confirmAppointment(Store, a, id).ok
              /\ \A id \in LabIds :
                    ~reviewLabResults(Store, a, id, "medication", "QmRx", tok).ok
              /\ \A id \in AIIds : ~reviewAISymptomAnalysis(Store, a, id, "QmAnalysis").ok
        /\ ~labTechnicians[a].isVerified =>
              \A id \in LabIds :
                  /\ ~collectSample(Store, a, id, "QmSample").ok
                  /\ ~uploadLabResults(Store, a, id, "QmResults", tok).ok
        /\ ~pharmacies[a].isRegistered =>
              \A id \in LabIds :
                  /\ ~verifyPrescription(Store, a, id, prescriptions[id].verificationCodeHash).ok
                  /\ ~fulfillPrescription(Store, a, id).ok

\* C9: registerPatient by an identity that is already registered reverts with
\* "Already registered" and keeps the record; a registration that returns finds
\* the caller unregistered and leaves it registered with the Patient role, and a
\* registered identity stays registered: registerPatient grants the role to an
\* identity once.
RegisteredTwiceReverts ==
    \A p \in Users, key \in {"key1", "key2"} :
        patients[p].isRegistered =>
            LET r == registerPatient(Store, p, key)
            IN  ~r.ok /\ r.err = "Already registered" /\ r.s = Store

RegistrationStep(p) ==
    /\ patients[p].isRegistered => patients'[p].isRegistered
    /\ patients'[p].encryptedSymmetricKey # patients[p].encryptedSymmetricKey =>
          /\ ~patients[p].isRegistered
          /\ patients'[p].isRegistered
          /\ p \in roles'[PATIENT_ROLE]
          /\ patients'[p].dataSharing = "Disabled"
          /\ patients'[p].lastRewardTimestamp = 0

C9_RegisterOnce ==
    /\ []RegisteredTwiceReverts
    /\ [][\A p \in Users : RegistrationStep(p)]_vars

\* alice is registered with her first key and has enabled data sharing: a second
\* registerPatient, with another key, finds a record it would overwrite.
C9_Witness ==
    /\ patients["alice"].isRegistered
    /\ patients["alice"].encryptedSymmetricKey = "key1"
    /\ patients["alice"].dataSharing = "Enabled"
    /\ registerPatient(Store, "alice", "key2").err = "Already registered"

\* --------------------------------------------------- booking specification
\* Appointments: alice (registered) and bob (not) book drd, verified with a fee
\* of 1 or 2, and dre and tech1, who are no verified doctors, with each asset,
\* attached value and answer of the token; drd and dre confirm. The bookings
\* are video calls: isVideoCall is stored and selects the stored link only.
BookingDoctors == {"drd", "dre", "tech1"}
BookingTimes == {now + MIN_BOOKING_BUFFER, now + 3600}

\* How a booking pays: native currency with an attached value and a caller that
\* accepts or refuses the refund, or a token that answers the pull in some way.
Payments ==
    [ptype : {"ETH"}, value : 0..EthPerUser, tok : {"moves"}, refundOk : BOOLEAN]
    \cup [ptype : {"USDC", "SONIC"}, value : {0, 1}, tok : TokenBehaviour, refundOk : {TRUE}]

BookingNext ==
    \/ TxRegisterPatient("alice", "key1")
    \/ \E fee \in {1, 2} : TxVerifyDoctor(Admin, "drd", "L1", fee)
    \/ TxVerifyLabTechnician(Admin, "tech1", "L1")
    \/ \E c \in {"alice", "bob"}, d \in BookingDoctors, ts \in BookingTimes,
          pay \in Payments :
          TxBookAppointment(c, d, ts, pay.ptype, TRUE, pay.value, pay.tok, pay.refundOk)
    \/ \E c \in {"drd", "dre"}, id \in ApptIds : TxConfirmAppointment(c, id)

BookingSpec == Init /\ [][BookingNext]_vars

\* C10: bookAppointment naming a doctor whose record is not verified reverts for
\* every caller, payment asset and attached value, so it creates no record; every
\* appointment the store gains names a doctor that was verified when it was booked.
UnverifiedDoctorReverts ==
    \A c \in {"alice", "bob"}, d \in Addr, ts \in BookingTimes, pay \in Payments :
        ~doctors[d].isVerified =>
            LET r == bookAppointment(WithValue(Store, c, pay.value), c, d, ts, pay.ptype,
                                     TRUE, "link", pay.value, pay.tok, pay.refundOk)
            IN  /\ ~r.ok
                /\ hasRole(Store, PATIENT_ROLE, c) => r.err = "Doctor not verified"

BookedDoctorVerified ==
    appointmentCounter' # appointmentCounter =>
        /\ appointmentCounter' = appointmentCounter + 1
        /\ doctors[appointments'[appointmentCounter'].doctor].isVerified

BookingLeavesNoTrace ==
    appointmentCounter' = appointmentCounter =>
        /\ \A i \in ApptIds : appointments'[i].doctor = appointments[i].doctor
        /\ \A a \in Addr : patients'[a].mediPoints = patients[a].mediPoints
        /\ eth' = eth /\ usdc' = usdc /\ sonic' = sonic

C10_UnverifiedDoctorNoBooking ==
    /\ []UnverifiedDoctorReverts
    /\ [][BookedDoctorVerified /\ BookingLeavesNoTrace]_vars

\* alice has booked drd; tech1 is a verified technician and no verified doctor,
\* and a booking naming tech1 reverts with "Doctor not verified".
C10_Witness ==
    /\ appointmentCounter = 1
    /\ appointments[1].doctor = "drd"
    /\ labTechnicians["tech1"].isVerified
    /\ ~doctors["tech1"].isVerified
    /\ bookAppointment(WithValue(Store, "alice", 1), "alice", "tech1", now + 3600, "ETH",
                       TRUE, "link", 1, "moves", TRUE).err = "Doctor not verified"

\* ----------------------------------------------------- relay specification
\* The relay: handleUserOp called by the entry point and by others, for
\* declared senders that are the caller, a registered patient (alice) or
\* neither (bob), with each call data of RelayCalls.
RelayCalls ==
    {Call("registerPatient", ZeroAddr, 0, "key1", NoCode),
     Call("toggleDataMonetization", ZeroAddr, 1, "", NoCode),
     Call("toggleDataMonetization", ZeroAddr, 0, "", NoCode),
     Call("claimDataReward", ZeroAddr, 0, "", NoCode),
     Call("requestAISymptomAnalysis", ZeroAddr, 0, "symptoms", NoCode),
     Call("bookAppointment", "drd", now + 3600, "ETH", NoCode),
     Call("verifyDoctor", "bob", 1, "L1", NoCode),
     Call("handleUserOp", ZeroAddr, 0, "", NoCode),
     Call("pause", ZeroAddr, 0, "", NoCode)}

RelayCallers == {EntryPointAddr, Admin, "alice", Core}
RelaySenders == {EntryPointAddr, "alice", "bob", Core}

\* The calls of handleUserOp taken as steps: the entry point relays every call
\* data for every declared sender, with the closing entryPoint.handleOps
\* returning or not and, for the calls that reach the token, each answer of the
\* token; the other callers try every call data for themselves and for alice.
RelayOps ==
    [c : {EntryPointAddr}, snd : RelaySenders, cd : RelayCalls, tok : {"moves"},
     relayOk : BOOLEAN]
    \cup [c : {EntryPointAddr}, snd : {EntryPointAddr},
          cd : {cd \in RelayCalls : cd.fn \in {"claimDataReward", "requestAISymptomAnalysis"}},
          tok : TokenBehaviour, relayOk : {TRUE}]
    \cup {o \in [c : RelayCallers \ {EntryPointAddr}, snd : RelaySenders, cd : RelayCalls,
                  tok : {"moves"}, relayOk : {TRUE}] : o.snd \in {o.c, "alice"}}

RelayNext ==
    \/ TxRegisterPatient("alice", "key1")
    \/ \E fee \in {0, 1} : TxVerifyDoctor(Admin, "drd", "L1", fee)
    \/ \E o \in RelayOps : TxHandleUserOp(o.c, o.snd, o.cd, o.tok, o.relayOk)
    \/ FundTreasury(Admin, DATA_MONETIZATION_REWARD)

RelaySpec == Init /\ [][RelayNext]_vars

\* C11: when the relay identity calls handleUserOp with an operation whose
\* declared sender S is not yet registered and whose payload is registerPatient,
\* the call does not fail and afterwards S has a registered Patient record.
C11_RelayedRegistration ==
    \A snd \in Users :
        ~patients[snd].isRegistered =>
            LET r == handleUserOp(Store, EntryPointAddr, snd,
                                  Call("registerPatient", ZeroAddr, 0, "key1", NoCode),
                                  "moves", TRUE)
            IN  r.ok /\ r.s.patients[snd].isRegistered

AdminAttempts ==
    {Call(fn, "bob", 1, "L1", NoCode) : fn \in EntryPoints \cup {"pause", "unpause"}}
    \cup {Call(fn, "bob", 1, r, NoCode) :
            fn \in {"grantRole", "revokeRole", "renounceRole"}, r \in Roles}

\* A transaction from sender with call data c. handleUserOp is given an
\* operation that declares sender c.who and relays registerPatient.
externalCall(s, sender, c, tok) ==
    IF c.fn = "handleUserOp"
    THEN handleUserOp(s, sender, c.who, Call("registerPatient", ZeroAddr, 0, "key1", NoCode),
                      tok, TRUE)
    ELSE dispatch(s, sender, c, tok)

\* Some call of the Admin returns with the system paused.
AdminCanPause ==
    \E c \in AdminAttempts, tok \in TokenBehaviour :
        LET r == externalCall(Store, Admin, c, tok)
        IN  r.ok /\ r.s.paused

\* While paused no call of any identity to a mutating entry point returns.
PausedRejectsAll ==
    paused =>
        \A a \in Addr, c \in AdminAttempts, tok \in TokenBehaviour :
            LET r == externalCall(Store, a, c, tok)
            IN  ~r.ok /\ r.s = Store

\* C13: an Admin can pause the system, and while it is paused every mutating
\* entry point (registration, booking, confirmation, lab and prescription
\* transitions, symptom analysis, data-sharing toggle, reward claim, relay) is
\* rejected with no state change.
C13_AdminPauseStopsAll == AdminCanPause /\ PausedRejectsAll

\* ------------------------------------------------- re-entrancy specification
\* Patient alice and doctor drd (fee 1). alice's booking, claim and symptom
\* analysis call out; while a call is out, alice (the refund receiver) and bob
\* (code the token runs, holding no role) call back into the contract.
TopLevel(A) == pending.fn = "none" /\ A

Nested(A) == pending.fn # "none" /\ A

ReentryPayments ==
    [ptype : {"ETH"}, value : {1, 2}] \cup [ptype : {"USDC", "SONIC"}, value : {0}]

ReentryNext ==
    \/ TopLevel(TxRegisterPatient("alice", "key1"))
    \/ TopLevel(TxVerifyDoctor(Admin, "drd", "L1", 1))
    \/ TopLevel(TxToggleDataMonetization("alice", TRUE))
    \/ TopLevel(FundTreasury(Admin, DATA_MONETIZATION_REWARD))
    \/ \E pay \in ReentryPayments :
          CallOutBookAppointment("alice", "drd", now + 3600, pay.ptype, pay.value)
    \/ CallOutClaimDataReward("alice")
    \/ CallOutRequestAISymptomAnalysis("alice")
    \/ \E c \in {"alice", "bob"}, pay \in ReentryPayments :
          Nested(TxBookAppointment(c, "drd", now + 3600, pay.ptype, TRUE, pay.value,
                                   "moves", TRUE))
    \/ \E c \in {"alice", "bob"} : Nested(TxClaimDataReward(c, "moves"))
    \/ \E c \in {"alice", "bob"} : Nested(TxRequestAISymptomAnalysis(c, "moves"))
    \/ \E c \in {"alice", "bob"} : Nested(TxToggleDataMonetization(c, FALSE))
    \/ \E tok \in TokenBehaviour : ReturnBookAppointment(tok)
    \/ \E tok \in TokenBehaviour : ReturnReward(tok)

ReentrySpec == Init /\ [][ReentryNext]_vars

GuardedFunctions == {"bookAppointment", "claimDataReward"}

\* While a guarded function waits for its external call, no call of
\* bookAppointment or claimDataReward returns, whoever makes it; a Patient's
\* call is stopped by the guard itself.
NestedGuardedCallsRejected ==
    pending.fn \in GuardedFunctions =>
        \A c \in {"alice", "bob", Admin, Core}, tok \in TokenBehaviour :
            /\ \A d \in {"drd", "dre"}, pay \in ReentryPayments :
                  LET r == bookAppointment(WithValue(Store, c, pay.value), c, d, now + 3600,
                                           pay.ptype, TRUE, "link", pay.value, tok, TRUE)
                  IN  /\ ~r.ok
                      /\ c \in roles[PATIENT_ROLE] => r.err = ERR_REENTRANT
            /\ LET r == claimDataReward(Store, c, tok)
               IN  /\ ~r.ok
                   /\ c \in roles[PATIENT_ROLE] => r.err = ERR_REENTRANT

\* A step taken while the guarded function keeps waiting creates no
\* appointment and makes no payout through claimDataReward.
NoReentrantEffect ==
    (pending.fn \in GuardedFunctions /\ pending'.fn # "none") =>
        /\ appointmentCounter' = appointmentCounter
        /\ appointments' = appointments
        /\ \A a \in Addr :
              (paidAt'[a] # paidAt[a] \/ paidBy'[a] # paidBy[a]) =>
                  paidBy'[a] \notin GuardedFunctions

\* C14: while bookAppointment or claimDataReward is running and has handed
\* control to an external party (native refund or token transfer), a nested
\* call into bookAppointment or claimDataReward is rejected, so no appointment
\* is created and no reward is paid by a re-entrant call.
C14_NestedCallsRejected ==
    /\ []NestedGuardedCallsRejected
    /\ [][NoReentrantEffect]_vars

\* alice's booking waits for the USDC token to return; she shares her data, was
\* never rewarded and the treasury holds a reward, so only the guard stands
\* between a nested claimDataReward and a payout.
C14_Witness ==
    /\ pending.fn = "bookAppointment"
    /\ pending.party = "usdc"
    /\ entered
    /\ patients["alice"].dataSharing = "Enabled"
    /\ now >= patients["alice"].lastRewardTimestamp + ONE_DAY
    /\ sonic[Core] >= DATA_MONETIZATION_REWARD
    /\ claimDataReward(Store, "alice", "moves").err = ERR_REENTRANT

\* C15: whenever the core calls the token collaborator to move treasury funds,
\* the non-reentrant guard is held by the enclosing top-level entry point.
C15_TreasuryMovesUnderGuard ==
    pending.party \in {"usdc", "sonic"} => entered

\* ------------------------------------------------ prescription specification
\* From lab order to fulfilment: alice, doctor drd, technician tech1 and the
\* pharmacies pharm1 and pharm2, over blocks a fortnight apart, so that a
\* prescription (valid 30 days) is met before, at and after its expiration.
\* The pharmacies try the prescriptions issued, identifier 0 (never issued) and
\* the identifier the next review will issue.
MaxFortnights == 3

Fortnight == THIRTY_DAYS \div 2

TickFortnight ==
    /\ now + Fortnight <= DeployTime + MaxFortnights * Fortnight
    /\ now' = now + Fortnight
    /\ UNCHANGED <<roles, paused, entered, patients, doctors, labTechnicians, pharmacies,
                   appointments, labTestOrders, prescriptions, aiAnalyses,
                   appointmentCounter, labTestCounter, prescriptionCounter,
                   aiAnalysisCounter, eth, usdc, sonic, paidAt, paidBy, pending>>

Pharmacies == {"pharm1", "pharm2"}

\* The codes a pharmacy presents: the one the prescription holds, and another.
CodesFor(id) == {prescriptions[id].verificationCodeHash, codeHash(0, "bob", 1)}

\* Identifiers a pharmacy presents: 0, those issued, and the next one.
TriedIds == 0..(IF prescriptionCounter < MaxRewardLab THEN prescriptionCounter + 1
                                                      ELSE prescriptionCounter)

PrescriptionNext ==
    \/ TxRegisterPatient("alice", "key1")
    \/ TxVerifyDoctor(Admin, "drd", "L1", 1)
    \/ TxVerifyLabTechnician(Admin, "tech1", "L1")
    \/ \E ph \in Pharmacies : TxRegisterPharmacy(Admin, ph, "L1")
    \/ labTestCounter < MaxRewardLab /\ TxOrderLabTest("drd", "alice", "moves")
    \/ \E id \in 1..labTestCounter : TxCollectSample("tech1", id)
    \/ \E id \in 1..labTestCounter : TxUploadLabResults("tech1", id, "moves")
    \/ \E id \in 1..labTestCounter : TxReviewLabResults("drd", id, "moves")
    \/ \E ph \in Pharmacies, id \in TriedIds :
          \E code \in CodesFor(id) : TxVerifyPrescription(ph, id, code)
    \/ \E ph \in Pharmacies, id \in TriedIds : TxFulfillPrescription(ph, id)
    \/ TickFortnight

PrescriptionSpec == Init /\ [][PrescriptionNext]_vars

ExpiredRejected ==
    \A ph \in Addr, id \in LabIds :
        (/\ prescriptions[id].status = "Verified"
         /\ prescriptions[id].pharmacy = ph
         /\ ph \in roles[PHARMACY_ROLE]
         /\ now > prescriptions[id].expirationTimestamp) =>
            LET r == fulfillPrescription(Store, ph, id)
            IN  /\ ~r.ok
                /\ r.err = "Expired"
                /\ r.s.prescriptions[id].status = "Verified"
                /\ r.s = Store

FulfilledInTime ==
    \A id \in LabIds :
        (prescriptions[id].status # "Fulfilled" /\ prescriptions'[id].status = "Fulfilled") =>
            /\ prescriptions[id].status = "Verified"
            /\ now <= prescriptions[id].expirationTimestamp

\* C16: fulfillPrescription called after the prescription's expiration
\* timestamp fails with Expired even when the prescription is Verified and the
\* caller is the verifying pharmacy; the status stays Verified.
C16_ExpiredNotFulfilled ==
    /\ []ExpiredRejected
    /\ [][FulfilledInTime]_vars

\* Prescription 1, issued by drd's review and verified by pharm1, is past its
\* expiration: pharm1's fulfillPrescription fails with Expired.
C16_Witness ==
    /\ prescriptionCounter >= 1
    /\ prescriptions[1].status = "Verified"
    /\ prescriptions[1].pharmacy = "pharm1"
    /\ prescriptions[1].expirationTimestamp = prescriptions[1].generatedTimestamp + THIRTY_DAYS
    /\ prescriptions[1].generatedTimestamp >= DeployTime
    /\ now > prescriptions[1].expirationTimestamp
    /\ fulfillPrescription(Store, "pharm1", 1).err = "Expired"

\* ------------------------------------------------------- booking settlement
\* The native bookings of a Patient with a verified doctor and a time beyond the
\* buffer: what decides them is the attached value and the refund.
EthBookingSettles ==
    \A c \in {"alice", "bob"}, d \in BookingDoctors, v \in 0..EthPerUser,
       refundOk \in BOOLEAN :
        (/\ eth[c] >= v
         /\ hasRole(Store, PATIENT_ROLE, c)
         /\ doctors[d].isVerified) =>
            LET fee == doctors[d].consultationFee
                r == bookAppointment(WithValue(Store, c, v), c, d, now + 3600, "ETH",
                                     TRUE, "link", v, "moves", refundOk)
            IN  /\ v < fee => ~r.ok /\ r.err = "Insufficient ETH"
                /\ (v = fee \/ (v > fee /\ refundOk)) =>
                      /\ r.ok
                      /\ r.s.eth[c] = (eth[c] - v) + (v - fee)
                      /\ r.s.eth[Core] = eth[Core] + fee
                /\ r.ok => v >= fee

\* A step that books with native currency escrows the fee and nothing else.
EthBookingStep ==
    (/\ appointmentCounter' # appointmentCounter
     /\ appointments'[appointmentCounter'].paymentType = "ETH") =>
        LET a == appointments'[appointmentCounter']
        IN  /\ eth'[Core] = eth[Core] + a.fee
            /\ eth'[a.patient] = eth[a.patient] - a.fee
            /\ \A o \in Addr \ {Core, a.patient} : eth'[o] = eth[o]

\* C17: booking with native currency and an attached value v >= fee returns
\* exactly v - fee to the caller and increases the core's native balance by
\* exactly fee; with v < fee the booking fails with "Insufficient ETH" and
\* nothing changes.
C17_NativeBookingSettlement ==
    /\ []EthBookingSettles
    /\ [][EthBookingStep /\ BookingLeavesNoTrace]_vars

\* alice can overpay drd's fee of 1 by 1: the booking with value 2 returns 1 to
\* her; and a doctor with fee 2 is out of reach of a value of 1.
C17_Witness ==
    /\ hasRole(Store, PATIENT_ROLE, "alice")
    /\ doctors["drd"].isVerified
    /\ doctors["drd"].consultationFee = 1
    /\ eth["alice"] >= 2
    /\ LET r == bookAppointment(WithValue(Store, "alice", 2), "alice", "drd", now + 3600,
                                "ETH", TRUE, "link", 2, "moves", TRUE)
       IN  r.ok /\ r.s.eth["alice"] = eth["alice"] - 1 /\ r.s.eth[Core] = eth[Core] + 1
    /\ appointmentCounter = 1
    /\ appointments[1].paymentType = "ETH"
    /\ eth[Core] = 1

\* ------------------------------------------------------------ booking record
\* A booking that returns has written the record under the incremented counter:
\* the caller as patient, the doctor named, his current fee, status Pending,
\* and has emitted AppointmentBooked with that identifier.
BookingWritesRecord ==
    \A c \in {"alice", "bob"}, d \in BookingDoctors, ts \in BookingTimes, pay \in Payments :
        (eth[c] >= pay.value /\ appointmentCounter < MaxAppt) =>
            LET r == bookAppointment(WithValue(Store, c, pay.value), c, d, ts, pay.ptype,
                                     TRUE, "link", pay.value, pay.tok, pay.refundOk)
                n == appointmentCounter + 1
            IN  r.ok =>
                  /\ r.s.appointmentCounter = n
                  /\ r.s.appointments[n].id = n
                  /\ r.s.appointments[n].patient = c
                  /\ r.s.appointments[n].doctor = d
                  /\ r.s.appointments[n].status = "Pending"
                  /\ r.s.appointments[n].fee = doctors[d].consultationFee
                  /\ r.s.appointments[n].scheduledTimestamp = ts
                  /\ r.ev = <<Event("AppointmentBooked", n, c)>>
                  /\ \A i \in ApptIds \ {n} : r.s.appointments[i] = appointments[i]

\* The scenario: P registered, D verified with fee F, no appointment yet, P
\* books D one hour ahead paying F in native currency.
FirstBookingScenario ==
    \A p \in {"alice", "bob"}, d \in BookingDoctors :
        (/\ appointmentCounter = 0
         /\ patients[p].isRegistered /\ hasRole(Store, PATIENT_ROLE, p)
         /\ doctors[d].isVerified
         /\ eth[p] >= doctors[d].consultationFee) =>
            LET fee == doctors[d].consultationFee
                r == bookAppointment(WithValue(Store, p, fee), p, d, now + 3600, "ETH",
                                     TRUE, "link", fee, "moves", TRUE)
            IN  /\ r.ok
                /\ r.s.appointments[1].id = 1
                /\ r.s.appointments[1].status = "Pending"
                /\ r.s.appointments[1].fee = fee
                /\ r.s.appointments[1].patient = p
                /\ r.s.appointments[1].doctor = d
                /\ r.ev = <<Event("AppointmentBooked", 1, p)>>

BookingStep ==
    appointmentCounter' # appointmentCounter =>
        LET n == appointmentCounter'
        IN  /\ n = appointmentCounter + 1
            /\ appointments[n] = NoAppointment
            /\ appointments'[n].id = n
            /\ appointments'[n].status = "Pending"
            /\ appointments'[n].fee = doctors[appointments'[n].doctor].consultationFee
            /\ hasRole(Store, PATIENT_ROLE, appointments'[n].patient)

\* C18: after patient P registers, doctor D is verified with fee F, and P books
\* D for a time one hour ahead paying native value F, the first appointment has
\* identifier 1 with status Pending, fee F, patient P and doctor D, and an
\* AppointmentBooked event carrying identifier 1 is emitted; a successful
\* booking creates the record at the new counter value with the doctor's
\* current fee and the caller as patient.
C18_BookingRecord ==
    /\ []BookingWritesRecord
    /\ []FirstBookingScenario
    /\ [][BookingStep]_vars

\* alice's first appointment with drd is on record, still Pending, one hour
\* after the block that booked it, at drd's fee, paid in native currency.
C18_Witness ==
    /\ appointmentCounter = 1
    /\ appointments[1].id = 1
    /\ appointments[1].patient = "alice"
    /\ appointments[1].doctor = "drd"
    /\ appointments[1].status = "Pending"
    /\ appointments[1].paymentType = "ETH"
    /\ appointments[1].scheduledTimestamp = now + 3600
    /\ appointments[1].fee = doctors["drd"].consultationFee
    /\ eth[Core] = appointments[1].fee

\* ------------------------------------------------------------ claim failures
\* The requirements of claimDataReward, in the order the function tests them;
\* a failed one stops the call before the token is reached.
ClaimFailures ==
    \A p \in Addr, tok \in TokenBehaviour :
        hasRole(Store, PATIENT_ROLE, p) =>
            LET r == claimDataReward(Store, p, tok)
                enabled == patients[p].dataSharing = "Enabled"
                due == now >= patients[p].lastRewardTimestamp + ONE_DAY
                funded == sonic[Core] >= DATA_MONETIZATION_REWARD
                untouched == /\ ~r.ok
                             /\ r.tok = "none"
                             /\ r.ev = <<>>
                             /\ r.s.sonic = sonic
                             /\ r.s.patients[p].lastRewardTimestamp
                                    = patients[p].lastRewardTimestamp
                             /\ r.s = Store
            IN  /\ ~enabled => r.err = "Data sharing not enabled" /\ untouched
                /\ (enabled /\ ~due) => r.err = "Reward not yet available" /\ untouched
                /\ (enabled /\ due /\ ~funded) =>
                      r.err = "Insufficient SONIC tokens" /\ untouched

\* No step pays a Patient, or restarts the cooldown, whose flag is Disabled or
\* whose last reward is less than 24 hours old.
FailedClaimStep ==
    \A p \in roles[PATIENT_ROLE] :
        (\/ patients[p].dataSharing # "Enabled"
         \/ now < patients[p].lastRewardTimestamp + ONE_DAY) =>
            /\ sonic'[p] = sonic[p]
            /\ patients'[p].lastRewardTimestamp = patients[p].lastRewardTimestamp

\* C19: claimDataReward fails with "Data sharing not enabled" when the caller's
\* flag is Disabled, with "Reward not yet available" when less than 24 hours
\* have passed since lastRewardTimestamp, and with "Insufficient SONIC tokens"
\* when the core's reward-asset balance is below the reward amount; in each
\* case no tokens move and lastRewardTimestamp is unchanged.
C19_ClaimFailures ==
    /\ []ClaimFailures
    /\ [][FailedClaimStep]_vars

\* alice, rewarded once, is due again and shares her data, but the treasury is
\* empty: her claim fails with "Insufficient SONIC tokens".
C19_Witness ==
    /\ hasRole(Store, PATIENT_ROLE, "alice")
    /\ patients["alice"].dataSharing = "Enabled"
    /\ patients["alice"].lastRewardTimestamp > 0
    /\ now >= patients["alice"].lastRewardTimestamp + ONE_DAY
    /\ sonic[Core] < DATA_MONETIZATION_REWARD
    /\ claimDataReward(Store, "alice", "moves").err = "Insufficient SONIC tokens"

\* ------------------------------------------------------ role administration
\* Every call data a caller without the Admin role may send: each selector that
\* dispatch knows with the addresses, roles and strings of the role functions.
RoleAttempts ==
    {Call(fn, who, 1, role, NoCode) :
        fn \in {"grantRole", "revokeRole", "renounceRole"},
        who \in {"alice", "bob", Admin, Core}, role \in Roles}
    \cup {Call(fn, who, 1, "L1", NoCode) :
            fn \in EntryPoints \ {"grantRole", "revokeRole", "renounceRole", "handleUserOp"},
            who \in {"alice", "bob", "drd"}}

AdminFunctions ==
    {"grantRole", "revokeRole", "verifyDoctor", "verifyLabTechnician", "registerPharmacy"}

Records(s) == <<s.patients, s.doctors, s.labTechnicians, s.pharmacies>>

\* The privileged functions reject a caller without the Admin role, with the
\* authorization error and nothing changed.
NonAdminRejected ==
    \A a \in Addr \ roles[ADMIN_ROLE], c \in RoleAttempts :
        c.fn \in AdminFunctions =>
            LET r == dispatch(Store, a, c, "moves")
            IN  /\ ~r.ok
                /\ r.err = ERR_ROLE
                /\ r.s.roles = roles
                /\ Records(r.s) = Records(Store)
                /\ r.s = Store

\* What registerPatient does to the roles: the Patient role to its caller.
GrantsPatientToCaller(r, a) ==
    r.s.roles = [roles EXCEPT ![PATIENT_ROLE] = @ \cup {a}]

\* A call from a caller without the Admin role (the contract calling itself
\* for the relay included) changes role membership only as registerPatient.
RolesChangeOnlyByAdminOrRegistration ==
    \A a \in Addr \ roles[ADMIN_ROLE], c \in RoleAttempts :
        LET r == dispatch(Store, a, c, "moves")
        IN  (r.ok /\ r.s.roles # roles) =>
                c.fn = "registerPatient" /\ GrantsPatientToCaller(r, a)

\* The same, renounceRole counted in: a holder leaves a role of its own.
RolesChangeOnlyByAdminRegistrationOrRenounce ==
    \A a \in Addr \ roles[ADMIN_ROLE], c \in RoleAttempts :
        LET r == dispatch(Store, a, c, "moves")
        IN  (r.ok /\ r.s.roles # roles) =>
                \/ c.fn = "registerPatient" /\ GrantsPatientToCaller(r, a)
                \/ /\ c.fn = "renounceRole"
                   /\ c.who = a
                   /\ r.s.roles = [roles EXCEPT ![c.arg] = @ \ {a}]

\* A step changes role membership by one account in one role, or, registering,
\* adds the new patient to the Patient role.
RoleStep ==
    roles' # roles =>
        \E role \in Roles, a \in Addr :
            /\ \A o \in Roles \ {role} : roles'[o] = roles[o]
            /\ \/ roles'[role] = roles[role] \cup {a}
               \/ roles'[role] = roles[role] \ {a}

\* C20 as stated: grant, revoke, verifyDoctor, verifyLabTechnician and
\* registerPharmacy called by an identity without the Admin role fail with an
\* authorization error and change no role membership and no participant
\* record; role membership changes only through these Admin operations and
\* through registerPatient, which grants only the Patient role and only to its
\* caller.
C20_OnlyAdminOrRegistration ==
    NonAdminRejected /\ RolesChangeOnlyByAdminOrRegistration

\* C20 amended: the same, with renounceRole as the third way role membership
\* changes: any holder removes itself, and nobody else, from a role.
C20_OnlyAdminRegistrationOrRenounce ==
    /\ [](NonAdminRejected /\ RolesChangeOnlyByAdminRegistrationOrRenounce)
    /\ [][RoleStep]_vars

\* bob holds no Admin role and the deployer does: bob's grantRole is refused
\* with the authorization error; alice, a registered patient, can still leave
\* the Patient role by herself.
C20_Witness ==
    /\ "bob" \notin roles[ADMIN_ROLE]
    /\ Admin \in roles[ADMIN_ROLE]
    /\ "alice" \in roles[PATIENT_ROLE]
    /\ grantRole(Store, "bob", DOCTOR_ROLE, "bob").err = ERR_ROLE
    /\ verifyDoctor(Store, "bob", "drd", "L1", 1).err = ERR_ROLE
    /\ LET r == renounceRole(Store, "alice", PATIENT_ROLE, "alice")
       IN  r.ok /\ "alice" \notin r.s.roles[PATIENT_ROLE]


\* ------------------------------------------------------- status order claims
AppointmentRank(st) ==
    CASE st = "Pending" -> 0 [] st = "Confirmed" -> 1 [] OTHER -> 2

PrescriptionRank(st) ==
    CASE st = "Generated" -> 0 [] st = "Verified" -> 1 [] st = "Fulfilled" -> 2

StatusForwardStep ==
    /\ \A id \in ApptIds :
          AppointmentRank(appointments'[id].status) >= AppointmentRank(appointments[id].status)
    /\ \A id \in LabIds :
          PrescriptionRank(prescriptions'[id].status) >= PrescriptionRank(prescriptions[id].status)

\* C21: for every appointment and prescription identifier the stored status
\* never moves backward: an appointment never returns from Confirmed to
\* Pending, a prescription never returns from Verified or Fulfilled to an
\* earlier status.
C21_StatusNeverBackward == [][StatusForwardStep]_vars

\* -------------------------------------------------- creation specification
\* The four creations together: alice (registered) and bob (not) book doctor
\* drd in native currency and submit symptom analyses; drd orders lab tests for
\* them, technician tech1 takes the issued orders to ResultsUploaded and drd
\* reviews them, which creates the prescriptions.
CreationNext ==
    \/ TxRegisterPatient("alice", "key1")
    \/ TxVerifyDoctor(Admin, "drd", "L1", 1)
    \/ TxVerifyLabTechnician(Admin, "tech1", "L1")
    \/ \E c \in {"alice", "bob"}, ts \in BookingTimes :
          TxBookAppointment(c, "drd", ts, "ETH", TRUE, 1, "moves", TRUE)
    \/ \E c \in {"alice", "bob"} : TxRequestAISymptomAnalysis(c, "moves")
    \/ \E p \in {"alice", "bob"} : TxOrderLabTest("drd", p, "moves")
    \/ \E id \in 1..labTestCounter : TxCollectSample("tech1", id)
    \/ \E id \in 1..labTestCounter : TxUploadLabResults("tech1", id, "moves")
    \/ \E id \in 1..labTestCounter : TxReviewLabResults("drd", id, "moves")

CreationSpec == Init /\ [][CreationNext]_vars

\* What a creation call does to its counter c and collection m (c2 and m2 after
\* the call): success issues c + 1, stores the record there with that id and
\* leaves the records issued before alone; failure changes neither.
CreationEffect(ok, c, c2, m, m2) ==
    IF ok
    THEN /\ c2 = c + 1
         /\ m2[c2].id = c2
         /\ \A id \in 1..c : m2[id] = m[id]
    ELSE /\ c2 = c
         /\ m2 = m

CreationCalls ==
    /\ \A c \in {"alice", "bob"}, ts \in BookingTimes :
          (appointmentCounter < MaxAppt /\ eth[c] >= 1) =>
              LET r == bookAppointment(WithValue(Store, c, 1), c, "drd", ts, "ETH", TRUE,
                                       "link", 1, "moves", TRUE)
              IN  CreationEffect(r.ok, appointmentCounter, r.s.appointmentCounter,
                                 appointments, r.s.appointments)
    /\ \A c \in {"alice", "bob"} :
          aiAnalysisCounter < MaxAI =>
              LET r == requestAISymptomAnalysis(Store, c, "symptoms", "moves")
              IN  CreationEffect(r.ok, aiAnalysisCounter, r.s.aiAnalysisCounter,
                                 aiAnalyses, r.s.aiAnalyses)
    /\ \A d \in {"drd", "tech1"}, p \in {"alice", "bob"} :
          labTestCounter < MaxLab =>
              LET r == orderLabTest(Store, d, p, "blood", "moves")
              IN  CreationEffect(r.ok, labTestCounter, r.s.labTestCounter,
                                 labTestOrders, r.s.labTestOrders)
    /\ \A d \in {"drd", "tech1"}, id \in LabIds :
          prescriptionCounter < MaxLab =>
              LET r == reviewLabResults(Store, d, id, "medication", "QmRx", "moves")
              IN  CreationEffect(r.ok, prescriptionCounter, r.s.prescriptionCounter,
                                 prescriptions, r.s.prescriptions)

\* Over any step a counter stays or grows by one; when it grows, the new record
\* carries the new value as its id, and the records issued before keep theirs.
CounterStep(c, c2, m, m2) ==
    /\ c2 \in {c, c + 1}
    /\ c2 = c + 1 => (m2[c2].id = c2 /\ \A id \in 1..c : m2[id] = m[id])
    /\ \A id \in 1..c : m2[id].id = id

CountersStep ==
    /\ CounterStep(appointmentCounter, appointmentCounter', appointments, appointments')
    /\ CounterStep(labTestCounter, labTestCounter', labTestOrders, labTestOrders')
    /\ CounterStep(prescriptionCounter, prescriptionCounter', prescriptions, prescriptions')
    /\ CounterStep(aiAnalysisCounter, aiAnalysisCounter', aiAnalyses, aiAnalyses')

CountersAtZero ==
    /\ appointmentCounter = 0
    /\ labTestCounter = 0
    /\ prescriptionCounter = 0
    /\ aiAnalysisCounter = 0

\* C22: for appointments, lab orders, prescriptions and symptom analyses the
\* counter starts at 0; each successful creation increases it by exactly 1 and
\* stores the new record under the new counter value with its id field equal to
\* that value; a failed creation leaves the counter unchanged; no creation
\* writes to an identifier issued before.
C22_CountersIssueFreshIds ==
    /\ CountersAtZero
    /\ []CreationCalls
    /\ [][CountersStep]_vars

\* One of each entity has been created and a second analysis after the first:
\* the second creation found an issued identifier it had to leave alone.
C22_Witness ==
    /\ appointmentCounter >= 1
    /\ labTestCounter >= 1
    /\ prescriptionCounter >= 1
    /\ aiAnalysisCounter = 2
    /\ aiAnalyses[1].id = 1
    /\ aiAnalyses[2].id = 2

\* ------------------------------------------------- unissued identifier claims
Unissued(id, counter) == id = 0 \/ id > counter

\* C23: identifier 0 is never valid: confirmAppointment, collectSample,
\* uploadLabResults, reviewLabResults, verifyPrescription, fulfillPrescription
\* and reviewAISymptomAnalysis fail when given identifier 0 or an identifier not
\* yet issued by the entity's counter, and the record stored under such an
\* identifier stays in its default, unset state.
C23_UnissuedIdsRejected ==
    /\ \A id \in ApptIds :
          Unissued(id, appointmentCounter) =>
              /\ appointments[id] = NoAppointment
              /\ \A c \in Addr : ~confirmAppointment(Store, c, id).ok
    /\ \A id \in LabIds :
          Unissued(id, labTestCounter) =>
              /\ labTestOrders[id] = NoLabTestOrder
              /\ \A c \in Addr :
                    /\ ~collectSample(Store, c, id, "QmSample").ok
                    /\ ~uploadLabResults(Store, c, id, "QmResults", "moves").ok
                    /\ ~reviewLabResults(Store, c, id, "medication", "QmRx", "moves").ok
    /\ \A id \in LabIds :
          Unissued(id, prescriptionCounter) =>
              /\ prescriptions[id] = NoPrescription
              /\ \A c \in Addr :
                    /\ ~verifyPrescription(Store, c, id, NoCode).ok
                    /\ ~fulfillPrescription(Store, c, id).ok
    /\ \A id \in AIIds :
          Unissued(id, aiAnalysisCounter) =>
              /\ aiAnalyses[id] = NoAnalysis
              /\ \A c \in Addr : ~reviewAISymptomAnalysis(Store, c, id, "QmAnalysis").ok

LabTechStep(id) ==
    LET o == labTestOrders[id]
        o2 == labTestOrders'[id]
    IN  /\ o.labTech # ZeroAddr => o2.labTech = o.labTech
        /\ (o.labTech = ZeroAddr /\ o2.labTech # ZeroAddr) =>
               /\ o.status = "Requested"
               /\ o2.status = "Collected"
               /\ o2.labTech \in roles[LAB_TECH_ROLE]
               /\ o2 = collectSample(Store, o2.labTech, id, o2.sampleCollectionIpfsHash).s.labTestOrders[id]

LabTechHeld ==
    \A id \in LabIds, c \in Addr :
        labTestOrders[id].labTech # ZeroAddr =>
            LET r == collectSample(Store, c, id, "QmSample")
            IN  ~r.ok /\ r.s = Store

\* C24: for every lab-order identifier the lab-technician field is written
\* exactly once over the order's whole life: it is unset until a successful
\* collectSample sets it to that caller, and afterwards no operation (a second
\* collectSample by another technician included) changes or clears it.
C24_LabTechWrittenOnce ==
    /\ []LabTechHeld
    /\ [][\A id \in LabIds : LabTechStep(id)]_vars

\* C25: a prescription record comes into existence only through
\* reviewLabResults: the record under an identifier that reviewLabResults has
\* not yet created has no field written, so every prescription with a recorded
\* pharmacy or a status other than Generated has an identifier between 1 and
\* prescriptionCounter.
C25_PrescriptionsOnlyFromReview ==
    \A id \in LabIds :
        /\ Unissued(id, prescriptionCounter) => prescriptions[id] = NoPrescription
        /\ (prescriptions[id].pharmacy # ZeroAddr \/ prescriptions[id].status # "Generated") =>
               id \in 1..prescriptionCounter

\* ------------------------------------------------ prescription creation claim
ReviewedOrders == {id \in LabIds : labTestOrders[id].status = "Reviewed"}

ReviewCreatesPrescription ==
    \A d \in LabCallers, id \in LabIds :
        LET r == reviewLabResults(Store, d, id, "medication", "QmRx", "moves")
            n == prescriptionCounter + 1
        IN  (r.ok /\ n \in LabIds) =>
                /\ r.s.prescriptionCounter = n
                /\ r.s.labTestOrders[id].status = "Reviewed"
                /\ r.s.prescriptions[n].id = n
                /\ r.s.prescriptions[n].status = "Generated"
                /\ r.s.prescriptions[n].pharmacy = ZeroAddr
                /\ r.s.prescriptions[n].patient = labTestOrders[id].patient
                /\ r.s.prescriptions[n].doctor = d
                /\ r.s.prescriptions[n].generatedTimestamp = now
                /\ r.s.prescriptions[n].expirationTimestamp = now + THIRTY_DAYS
                /\ \A k \in LabIds \ {n} : r.s.prescriptions[k] = prescriptions[k]

\* C26: each successful reviewLabResults creates exactly one prescription, so
\* in every reachable state prescriptionCounter equals the number of lab orders
\* in status Reviewed; the new prescription has status Generated, no pharmacy,
\* the reviewed order's patient, the reviewing doctor, and an expiration
\* timestamp exactly 30 days after the review time.
C26_OnePrescriptionPerReview ==
    /\ prescriptionCounter = Cardinality(ReviewedOrders)
    /\ ReviewCreatesPrescription

\* Order 1 has been reviewed and holds its prescription; order 2 has its results
\* uploaded and waits for the review that will create the second one.
C26_Witness ==
    /\ labTestOrders[1].status = "Reviewed"
    /\ prescriptions[1].status = "Generated"
    /\ prescriptions[1].patient = "alice"
    /\ labTestOrders[2].status = "ResultsUploaded"
    /\ reviewLabResults(Store, "drd", 2, "medication", "QmRx", "moves").ok

\* -------------------------------------------------- appointment status claim
AppointmentStatusReached ==
    \A id \in ApptIds : appointments[id].status \in {"Pending", "Confirmed"}

ConfirmOnlyByAssignedDoctor ==
    \A c \in Addr, id \in ApptIds :
        LET r == confirmAppointment(Store, c, id)
        IN  IF /\ c \in roles[DOCTOR_ROLE]
               /\ appointments[id].doctor = c
               /\ appointments[id].status = "Pending"
            THEN /\ r.ok
                 /\ r.s.appointments[id].status = "Confirmed"
            ELSE /\ ~r.ok
                 /\ r.s = Store

AppointmentStatusStep(id) ==
    appointments'[id].status # appointments[id].status =>
        /\ appointments[id].status = "Pending"
        /\ appointments'[id].status = "Confirmed"
        /\ appointments[id].doctor \in roles[DOCTOR_ROLE]
        /\ appointments' = confirmAppointment(Store, appointments[id].doctor, id).s.appointments

\* C27: every appointment's status is Pending or Confirmed in every reachable
\* state; the only status change is Pending->Confirmed, made by
\* confirmAppointment called by the appointment's assigned doctor holding the
\* Doctor role; confirmAppointment by any other identity or on a non-Pending
\* appointment fails with no change.
C27_AppointmentStatus ==
    /\ []AppointmentStatusReached
    /\ []ConfirmOnlyByAssignedDoctor
    /\ [][\A id \in ApptIds : AppointmentStatusStep(id)]_vars

\* drd has confirmed appointment 1 and not yet appointment 2: a second
\* confirmation of 1 is refused, and so is a confirmation of 2 by dre.
C27_Witness ==
    /\ appointments[1].status = "Confirmed"
    /\ appointments[2].status = "Pending"
    /\ appointments[2].doctor = "drd"
    /\ confirmAppointment(Store, "drd", 1).err = "Not pending"
    /\ ~confirmAppointment(Store, "dre", 2).ok
    /\ confirmAppointment(Store, "drd", 2).ok

\* ---------------------------------------------------------------- event claim
\* The declared events that carry the identifier of an appointment, of a lab
\* order and of a symptom analysis.
AppointmentEvents == {"AppointmentBooked", "VideoCallStarted"}
LabTestEvents == {"LabTestOrdered", "LabTestResultsUploaded"}
AnalysisEvents == {"AISymptomAnalyzed"}

EmitsFor(r, kinds, id) ==
    \E i \in 1..Len(r.ev) : r.ev[i].name \in kinds /\ r.ev[i].id = id

\* C28: every successful mutating operation emits an event that identifies the
\* changed entity: a successful confirmAppointment (with or without a video
\* call), collectSample, reviewAISymptomAnalysis and the status change of a lab
\* order to Reviewed each append an event for the changed record.
C28_MutationsEmitEvents ==
    /\ \A c \in Addr, id \in ApptIds :
          LET r == confirmAppointment(Store, c, id)
          IN  r.ok => EmitsFor(r, AppointmentEvents, id)
    /\ \A c \in Addr, id \in LabIds :
          LET r == collectSample(Store, c, id, "QmSample")
          IN  r.ok => EmitsFor(r, LabTestEvents, id)
    /\ \A c \in Addr, id \in AIIds :
          LET r == reviewAISymptomAnalysis(Store, c, id, "QmAnalysis")
          IN  r.ok => EmitsFor(r, AnalysisEvents, id)
    /\ \A c \in Addr, id \in LabIds :
          LET r == reviewLabResults(Store, c, id, "medication", "QmRx", "moves")
          IN  r.ok => EmitsFor(r, LabTestEvents, id)

\* --------------------------------------------------- custody specification
\* What the core holds: alice books doctor drd (fee 1) with each asset, attached
\* value and answer of the token, shares her data and is rewarded by explicit
\* claims and by symptom analyses, while the admin funds the treasury.
CustodyNext ==
    \/ TxRegisterPatient("alice", "key1")
    \/ TxVerifyDoctor(Admin, "drd", "L1", 1)
    \/ \E b \in BOOLEAN : TxToggleDataMonetization("alice", b)
    \/ \E pay \in Payments :
          TxBookAppointment("alice", "drd", now + 3600, pay.ptype, TRUE, pay.value, pay.tok,
                            pay.refundOk)
    \/ \E tok \in TokenBehaviour : TxClaimDataReward("alice", tok)
    \/ \E tok \in TokenBehaviour : TxRequestAISymptomAnalysis("alice", tok)
    \/ FundTreasury(Admin, DATA_MONETIZATION_REWARD)

CustodySpec == Init /\ [][CustodyNext]_vars

\* A reward payout: the treasury loses exactly the reward, a patient sharing
\* data gains it, and nobody else's balance moves.
RewardPayout ==
    \E p \in roles[PATIENT_ROLE] :
        /\ patients[p].dataSharing = "Enabled"
        /\ sonic' = [sonic EXCEPT ![Core] = @ - DATA_MONETIZATION_REWARD,
                                  ![p] = @ + DATA_MONETIZATION_REWARD]

CustodyStep ==
    /\ eth'[Core] >= eth[Core]
    /\ usdc'[Core] >= usdc[Core]
    /\ sonic'[Core] < sonic[Core] => RewardPayout

\* A native payment keeps the fee: whatever value is attached, the core ends the
\* call with at least what it held before it.
RefundReturnsExcessOnly ==
    \A pay \in Payments :
        (pay.ptype = "ETH" /\ eth["alice"] >= pay.value) =>
            LET r == bookAppointment(WithValue(Store, "alice", pay.value), "alice", "drd",
                                     now + 3600, "ETH", TRUE, "link", pay.value, pay.tok,
                                     pay.refundOk)
            IN  /\ r.ok => r.s.eth[Core] = eth[Core] + doctors["drd"].consultationFee
                /\ r.ok => r.s.eth["alice"] = eth["alice"] - doctors["drd"].consultationFee
                /\ ~r.ok => r.s.eth = WithValue(Store, "alice", pay.value).eth

\* C29: funds collected by the core stay in its custody: over any sequence of
\* operations the core's native-currency and stable-asset balances never
\* decrease (a native refund only returns the excess of the same call), and its
\* reward-asset balance decreases only by reward payouts of exactly the fixed
\* reward amount.
C29_FundsStayInCustody ==
    /\ []RefundReturnsExcessOnly
    /\ [][CustodyStep]_vars

\* The core holds a native fee, a stable-asset fee and reward-asset funds left
\* after a payout to alice.
C29_Witness ==
    /\ eth[Core] >= 1
    /\ usdc[Core] >= 1
    /\ sonic["alice"] >= DATA_MONETIZATION_REWARD
    /\ sonic[Core] >= 1

\* ------------------------------------------------- verifyPrescription claim
\* What a caller may supply for prescription id: the stored commitment, the
\* secret code it is the hash of (the packed inputs of reviewLabResults), and
\* another value.
SuppliedFor(id) ==
    LET h == prescriptions[id].verificationCodeHash
    IN  CodesFor(id) \cup (IF h = NoCode THEN {} ELSE {h[2]})

VerifiedOrLater(st) == st \in {"Verified", "Fulfilled"}

PharmacySetWhenVerified ==
    \A id \in LabIds :
        prescriptions[id].pharmacy # ZeroAddr <=> VerifiedOrLater(prescriptions[id].status)

\* The effect of a verifyPrescription call whose argument is accepted or not.
VerifyEffect(r, ph, id, accepted) ==
    IF /\ ph \in roles[PHARMACY_ROLE]
       /\ prescriptions[id].status = "Generated"
       /\ accepted
    THEN r.ok => /\ r.s.prescriptions[id].status = "Verified"
                 /\ r.s.prescriptions[id].pharmacy = ph
    ELSE /\ ~r.ok
         /\ r.s = Store

\* C30 as stated: verifyPrescription(id, code) succeeds only when the caller
\* holds the Pharmacy role, the prescription is Generated and the hash of the
\* supplied code equals the stored commitment; on success the status becomes
\* Verified and the pharmacy field is the caller; a non-matching code fails and
\* leaves the prescription unchanged; a prescription's pharmacy field is set
\* exactly when its status is Verified or Fulfilled.
C30_VerifyHashesSuppliedCode ==
    /\ PharmacySetWhenVerified
    /\ \A ph \in Addr, id \in LabIds :
          \A x \in SuppliedFor(id) :
              VerifyEffect(verifyPrescription(Store, ph, id, x), ph, id,
                           keccak256(x) = prescriptions[id].verificationCodeHash)

\* C30, amended: verifyPrescription(id, hash) succeeds exactly when the caller
\* holds the Pharmacy role, the prescription is Generated and the supplied value
\* itself equals the stored commitment (the contract compares, it does not
\* hash); on success the status becomes Verified and the pharmacy field is the
\* caller; a non-matching value fails and leaves the store unchanged; a
\* prescription's pharmacy field is set exactly when its status is Verified or
\* Fulfilled.
C30_VerifyComparesCommitment ==
    /\ PharmacySetWhenVerified
    /\ \A ph \in Addr, id \in LabIds :
          \A x \in SuppliedFor(id) :
              LET r == verifyPrescription(Store, ph, id, x)
                  accepted == x = prescriptions[id].verificationCodeHash
              IN  /\ VerifyEffect(r, ph, id, accepted)
                  /\ r.ok <=> (/\ ph \in roles[PHARMACY_ROLE]
                               /\ prescriptions[id].status = "Generated"
                               /\ accepted)

\* Prescription 1 is issued and Generated, pharm1 is a registered pharmacy:
\* supplying the commitment succeeds, supplying the code it commits to fails.
C30_Witness ==
    /\ prescriptionCounter = 1
    /\ prescriptions[1].status = "Generated"
    /\ prescriptions[1].verificationCodeHash = codeHash(1, "drd", prescriptions[1].generatedTimestamp)
    /\ verifyPrescription(Store, "pharm1", 1, prescriptions[1].verificationCodeHash).ok
    /\ verifyPrescription(Store, "pharm1", 1,
                          <<1, "drd", prescriptions[1].generatedTimestamp>>).err = "Invalid code"
    /\ prescriptions[0].status = "Verified"
    /\ prescriptions[0].pharmacy = "pharm2"

\* ------------------------------------------------ fulfillPrescription claim
FulfilledIsTerminal ==
    \A id \in LabIds :
        prescriptions[id].status = "Fulfilled" => prescriptions'[id] = prescriptions[id]

FulfilOnlyBeforeExpiration ==
    \A ph \in Addr, id \in LabIds :
        LET r == fulfillPrescription(Store, ph, id)
        IN  IF /\ prescriptions[id].pharmacy = ph
               /\ prescriptions[id].status = "Verified"
               /\ now < prescriptions[id].expirationTimestamp
            THEN r.ok => r.s.prescriptions[id].status = "Fulfilled"
            ELSE /\ ~r.ok
                 /\ r.s = Store

\* C31: fulfillPrescription succeeds only when the caller is the pharmacy that
\* verified the prescription, the status is Verified and the current time is
\* strictly before the expiration timestamp; in every other case, a call by a
\* different pharmacy or at a time equal to the expiration timestamp included,
\* it fails and the status is unchanged. Fulfilled is terminal.
C31_FulfilStrictlyBeforeExpiration ==
    /\ []FulfilOnlyBeforeExpiration
    /\ [][FulfilledIsTerminal]_vars

FulfilUntilExpiration ==
    \A ph \in Addr, id \in LabIds :
        LET r == fulfillPrescription(Store, ph, id)
        IN  IF /\ prescriptions[id].pharmacy = ph
               /\ prescriptions[id].status = "Verified"
               /\ now <= prescriptions[id].expirationTimestamp
            THEN /\ r.ok <=> ph \in roles[PHARMACY_ROLE]
                 /\ r.ok => r.s.prescriptions[id].status = "Fulfilled"
            ELSE /\ ~r.ok
                 /\ r.s = Store

\* C31, amended: fulfillPrescription succeeds only when the caller is the
\* pharmacy that verified the prescription, the status is Verified and the
\* current time is at or before the expiration timestamp; in every other case,
\* a call by a different pharmacy or at a time after the expiration timestamp
\* included, it fails and the store is unchanged. Fulfilled is terminal.
C31_FulfilUntilExpiration ==
    /\ []FulfilUntilExpiration
    /\ [][FulfilledIsTerminal]_vars

\* Prescription 1, verified by pharm1, is at its expiration timestamp: pharm1
\* still fulfils it, the registered pharmacy pharm2 does not.
C31_Witness ==
    /\ prescriptions[1].status = "Verified"
    /\ prescriptions[1].pharmacy = "pharm1"
    /\ now = prescriptions[1].expirationTimestamp
    /\ "pharm2" \in roles[PHARMACY_ROLE]
    /\ fulfillPrescription(Store, "pharm1", 1).ok
    /\ fulfillPrescription(Store, "pharm2", 1).err = "Not your prescription"

\* -------------------------------------------------- ownership specification
\* Two verified doctors and two verified technicians on the same orders: drd and
\* dre order tests for alice, and each of the four tries every later step on
\* every identifier of the store.
OwnershipCallers == {"drd", "dre", "tech1", "tech2"}

OwnershipNext ==
    \/ TxRegisterPatient("alice", "key1")
    \/ \E d \in {"drd", "dre"} : TxVerifyDoctor(Admin, d, "L1", 1)
    \/ \E t \in {"tech1", "tech2"} : TxVerifyLabTechnician(Admin, t, "L1")
    \/ \E d \in {"drd", "dre"} :
          labTestCounter < MaxRewardLab /\ TxOrderLabTest(d, "alice", "moves")
    \/ \E c \in OwnershipCallers, id \in LabIds : TxCollectSample(c, id)
    \/ \E c \in OwnershipCallers, id \in LabIds : TxUploadLabResults(c, id, "moves")
    \/ \E c \in OwnershipCallers, id \in LabIds : TxReviewLabResults(c, id, "moves")

OwnershipSpec == Init /\ [][OwnershipNext]_vars

UploadOnlyByCollector ==
    \A c \in Addr, id \in LabIds :
        LET r == uploadLabResults(Store, c, id, "QmResults", "moves")
        IN  IF /\ c \in roles[LAB_TECH_ROLE]
               /\ labTestOrders[id].labTech = c
               /\ labTestOrders[id].status = "Collected"
            THEN /\ r.ok
                 /\ r.s.labTestOrders[id].status = "ResultsUploaded"
            ELSE /\ ~r.ok
                 /\ r.s = Store

ReviewOnlyByOrderingDoctor ==
    \A c \in Addr, id \in LabIds :
        LET r == reviewLabResults(Store, c, id, "medication", "QmRx", "moves")
        IN  IF /\ c \in roles[DOCTOR_ROLE]
               /\ labTestOrders[id].doctor = c
               /\ labTestOrders[id].status = "ResultsUploaded"
            THEN /\ r.ok
                 /\ r.s.labTestOrders[id].status = "Reviewed"
            ELSE /\ ~r.ok
                 /\ r.s = Store

\* Two technicians call collectSample on the same Requested order, in either
\* order: the first call succeeds and the second fails and changes nothing.
CollectRaceHasOneWinner ==
    \A t1 \in roles[LAB_TECH_ROLE], t2 \in roles[LAB_TECH_ROLE], id \in LabIds :
        (t1 # t2 /\ labTestOrders[id].status = "Requested") =>
            LET r1 == collectSample(Store, t1, id, "QmSample")
                r2 == collectSample(r1.s, t2, id, "QmSample")
            IN  /\ r1.ok
                /\ r1.s.labTestOrders[id].labTech = t1
                /\ ~r2.ok
                /\ r2.s = r1.s

\* The technician recorded on an order is the caller of the collectSample that
\* took it from Requested to Collected, and the doctor recorded is the caller
\* of the orderLabTest that issued it.
OwnersAssignedByCallers ==
    \A id \in LabIds :
        LET o == labTestOrders[id]
            o2 == labTestOrders'[id]
        IN  /\ (o2.labTech # o.labTech /\ o2.labTech # ZeroAddr) =>
                   o2 = collectSample(Store, o2.labTech, id, o2.sampleCollectionIpfsHash).s.labTestOrders[id]
            /\ o2.doctor # o.doctor =>
                   /\ id = labTestCounter'
                   /\ o2 = orderLabTest(Store, o2.doctor, o2.patient, o2.testType, "moves").s.labTestOrders[id]

\* C32: for every lab order, uploadLabResults succeeds only for the identity
\* that performed collectSample on that order and holds the LabTech role, and
\* reviewLabResults only for the doctor who ordered the test and holds the
\* Doctor role; a call by any other technician or doctor fails and leaves the
\* order and prescriptionCounter unchanged. When two technicians race to
\* collectSample the same order, exactly one succeeds.
C32_OwnersOnly ==
    /\ []UploadOnlyByCollector
    /\ []ReviewOnlyByOrderingDoctor
    /\ []CollectRaceHasOneWinner
    /\ [][OwnersAssignedByCallers]_vars

\* Order 1 of drd was collected by tech1 while tech2 and dre are verified too:
\* tech2's upload is refused; and the results once uploaded, dre's review is.
C32_Witness ==
    /\ labTestOrders[1].doctor = "drd"
    /\ labTestOrders[1].labTech = "tech1"
    /\ labTestOrders[1].status = "ResultsUploaded"
    /\ "tech2" \in roles[LAB_TECH_ROLE]
    /\ "dre" \in roles[DOCTOR_ROLE]
    /\ uploadLabResults(Store, "tech2", 1, "QmResults", "moves").err = "Not your order"
    /\ reviewLabResults(Store, "dre", 1, "medication", "QmRx", "moves").err = "Not your order"
    /\ reviewLabResults(Store, "drd", 1, "medication", "QmRx", "moves").ok

\* ------------------------------------------------ booking precondition claim
\* Whether the payment of a booking can settle: enough native value attached, or
\* a token that moves the fee from a balance that covers it.
PaymentSettles(c, fee, pay) ==
    CASE pay.ptype = "ETH" -> pay.value >= fee /\ (pay.value > fee => pay.refundOk)
      [] pay.ptype = "USDC" -> pay.tok = "moves" /\ usdc[c] >= fee
      [] pay.ptype = "SONIC" -> pay.tok = "moves" /\ sonic[c] >= fee

TooSoonOrUnpaidFails ==
    \A c \in {"alice", "bob"}, d \in BookingDoctors, ts \in BookingTimes \cup {now},
       pay \in Payments :
        eth[c] >= pay.value =>
            LET r == bookAppointment(WithValue(Store, c, pay.value), c, d, ts, pay.ptype,
                                     TRUE, "link", pay.value, pay.tok, pay.refundOk)
            IN  (\/ ~(ts > now + MIN_BOOKING_BUFFER)
                 \/ ~PaymentSettles(c, doctors[d].consultationFee, pay)) =>
                    /\ ~r.ok
                    /\ r.ev = <<>>
                    /\ r.s.appointmentCounter = appointmentCounter
                    /\ r.s.appointments = appointments
                    /\ r.s.usdc = usdc
                    /\ r.s.sonic = sonic

\* A step that creates an appointment has a time past the lead time and has
\* collected the fee in the asset recorded.
BookedLateEnoughAndPaid ==
    appointmentCounter' # appointmentCounter =>
        LET a == appointments'[appointmentCounter']
        IN  /\ a.scheduledTimestamp > now + MIN_BOOKING_BUFFER
            /\ a.paymentType = "ETH" => eth'[Core] = eth[Core] + a.fee
            /\ a.paymentType = "USDC" => usdc'[Core] = usdc[Core] + a.fee
            /\ a.paymentType = "SONIC" => sonic'[Core] = sonic[Core] + a.fee

UnbookedStepKeepsStore ==
    appointmentCounter' = appointmentCounter =>
        \A id \in ApptIds :
            [appointments'[id] EXCEPT !.status = "Pending"] =
                [appointments[id] EXCEPT !.status = "Pending"]

\* C33: bookAppointment fails, with no payment collected and no record created,
\* unless the requested time is more than 15 minutes after the current time;
\* payment settles before the record is created, so a failed payment
\* (insufficient native value, failed token pull) leaves appointmentCounter and
\* the appointment store unchanged.
C33_LeadTimeAndPaymentFirst ==
    /\ []TooSoonOrUnpaidFails
    /\ [][BookedLateEnoughAndPaid /\ UnbookedStepKeepsStore]_vars

\* alice has one appointment with drd and funds left: a booking exactly 15
\* minutes ahead is too soon, and one with no value attached is unpaid.
C33_Witness ==
    /\ appointmentCounter = 1
    /\ appointments[1].scheduledTimestamp = now + 3600
    /\ eth["alice"] >= 1
    /\ doctors["drd"].consultationFee = 1
    /\ bookAppointment(WithValue(Store, "alice", 1), "alice", "drd", now + MIN_BOOKING_BUFFER,
                       "ETH", TRUE, "link", 1, "moves", TRUE).err = "Too soon"
    /\ bookAppointment(Store, "alice", "drd", now + 3600, "ETH", TRUE, "link", 0, "moves",
                       TRUE).err = "Insufficient ETH"
    /\ bookAppointment(Store, "alice", "drd", now + 3600, "USDC", TRUE, "link", 0,
                       "returnsFalse", TRUE).err = "USDC transfer failed"

\* ---------------------------------------------------- re-verification claim
ReverifyDoctorOverwrites ==
    \A d \in BookingDoctors, fee \in 1..EthPerUser :
        doctors[d].isVerified =>
            LET r == verifyDoctor(Store, Admin, d, "L2", fee)
                n == appointmentCounter + 1
                b == bookAppointment(WithValue(r.s, "alice", fee), "alice", d, now + 3600,
                                     "ETH", TRUE, "link", fee, "moves", TRUE)
            IN  /\ r.ok
                /\ r.s.doctors[d] =
                       [isVerified |-> TRUE, consultationFee |-> fee, licenseNumber |-> "L2"]
                /\ d \in roles[DOCTOR_ROLE]
                /\ r.s.roles = roles
                /\ r.s.appointments = appointments
                /\ (b.ok /\ n \in ApptIds) =>
                       /\ b.s.appointments[n].fee = fee
                       /\ \A id \in 1..appointmentCounter :
                              b.s.appointments[id] = appointments[id]

ReverifyLabTechnicianOverwrites ==
    \A t \in Users :
        labTechnicians[t].isVerified =>
            LET r == verifyLabTechnician(Store, Admin, t, "L2")
            IN  /\ r.ok
                /\ r.s.labTechnicians[t] = [isVerified |-> TRUE, licenseNumber |-> "L2"]
                /\ t \in roles[LAB_TECH_ROLE]
                /\ r.s.roles = roles

ReregisterPharmacyOverwrites ==
    \A ph \in Pharmacies :
        LET r1 == registerPharmacy(Store, Admin, ph, "L1")
            r2 == registerPharmacy(r1.s, Admin, ph, "L2")
        IN  /\ r1.ok
            /\ r1.s.pharmacies[ph].licenseNumber = "L1"
            /\ r2.ok
            /\ r2.s.pharmacies[ph] = [isRegistered |-> TRUE, licenseNumber |-> "L2"]
            /\ ph \in r2.s.roles[PHARMACY_ROLE]
            /\ r2.s.roles = r1.s.roles

\* An appointment is booked at the fee its doctor has then, and keeps it.
FeeFixedAtBooking ==
    /\ \A id \in 1..appointmentCounter : appointments'[id].fee = appointments[id].fee
    /\ appointmentCounter' # appointmentCounter =>
           LET a == appointments'[appointmentCounter']
           IN  a.fee = doctors[a.doctor].consultationFee

\* C34: verifyDoctor, verifyLabTechnician and registerPharmacy called again by
\* an Admin for an already verified identity succeed and overwrite the stored
\* license (and fee) with the new values while the role stays granted; a
\* doctor's re-verification with a new fee changes the fee charged to later
\* bookings and leaves the fee of every existing appointment unchanged.
C34_ReverificationOverwrites ==
    /\ []ReverifyDoctorOverwrites
    /\ []ReverifyLabTechnicianOverwrites
    /\ []ReregisterPharmacyOverwrites
    /\ [][FeeFixedAtBooking]_vars

\* drd was verified at fee 1, booked, re-verified at fee 2 and booked again:
\* the two appointments carry the two fees.
C34_Witness ==
    /\ appointmentCounter = 2
    /\ appointments[1].doctor = "drd"
    /\ appointments[1].fee = 1
    /\ appointments[2].doctor = "drd"
    /\ appointments[2].fee = 2
    /\ doctors["drd"].consultationFee = 2
    /\ labTechnicians["tech1"].isVerified

\* ---------------------------------------------- granted-role specification
\* Patients by registration and by grant: alice registers; the admin grants
\* bob the Patient role, and bob registers before or after he has used it to
\* book doctor drd and to submit symptom analyses.
GrantedNext ==
    \/ TxRegisterPatient("alice", "key1")
    \/ TxRegisterPatient("bob", "key1")
    \/ TxGrantRole(Admin, PATIENT_ROLE, "bob")
    \/ TxVerifyDoctor(Admin, "drd", "L1", 1)
    \/ \E c \in {"alice", "bob"} :
          TxBookAppointment(c, "drd", now + 3600, "ETH", TRUE, 1, "moves", TRUE)
    \/ \E c \in {"alice", "bob"} : TxRequestAISymptomAnalysis(c, "moves")

GrantedSpec == Init /\ [][GrantedNext]_vars

\* ------------------------------------------------------- gamification claim
AppointmentsOf(p) == {id \in 1..appointmentCounter : appointments[id].patient = p}

AnalysesOf(p) == {id \in 1..aiAnalysisCounter : aiAnalyses[id].patient = p}

MediPointsAccount ==
    \A p \in Addr :
        /\ patients[p].mediPoints =
               MEDIPOINTS_BOOKING * Cardinality(AppointmentsOf(p))
               + MEDIPOINTS_ANALYSIS * Cardinality(AnalysesOf(p))
        /\ patients[p].currentLevel = IF patients[p].isRegistered THEN INITIAL_LEVEL ELSE 0

MediPointsStep ==
    \A p \in Addr :
        LET d == patients'[p].mediPoints - patients[p].mediPoints
        IN  /\ d \in {0, MEDIPOINTS_BOOKING, MEDIPOINTS_ANALYSIS}
            /\ d = MEDIPOINTS_BOOKING <=>
                   (/\ appointmentCounter' = appointmentCounter + 1
                    /\ appointments'[appointmentCounter'].patient = p)
            /\ d = MEDIPOINTS_ANALYSIS <=>
                   (/\ aiAnalysisCounter' = aiAnalysisCounter + 1
                    /\ aiAnalyses'[aiAnalysisCounter'].patient = p)

\* C35: each successful bookAppointment increases the booking patient's
\* gamification counter by exactly 20 and each successful
\* requestAISymptomAnalysis by exactly 10; no other operation changes it, so a
\* patient's counter always equals 20 times their appointments plus 10 times
\* their symptom analyses, and the level stays at its baseline.
C35_MediPoints ==
    /\ []MediPointsAccount
    /\ [][MediPointsStep]_vars


\* --------------------------------------------------------- enumeration claim
EnumeratesOwnAppointments ==
    \A p \in Addr :
        LET r == getPatientAppointments(Store, p)
            v == r.ret
        IN  /\ r.s = Store
            /\ Len(v) = Cardinality(AppointmentsOf(p))
            /\ {v[k].id : k \in 1..Len(v)} = AppointmentsOf(p)
            /\ \A k \in 1..Len(v) : v[k] = appointments[v[k].id]
            /\ \A k \in 1..(Len(v) - 1) : v[k].id < v[k + 1].id
            /\ AppointmentsOf(p) = {} => v = <<>>

\* C36: getPatientAppointments(P) returns exactly the appointments with
\* identifiers 1..appointmentCounter whose patient is P, each once, in
\* increasing identifier order, and an empty list when P has none; it changes
\* no state.
C36_PatientAppointments == EnumeratesOwnAppointments

\* bob booked appointment 1 and alice appointment 2: each gets their own one.
C36_Witness ==
    /\ appointmentCounter = 2
    /\ appointments[1].patient = "bob"
    /\ appointments[2].patient = "alice"
    /\ getPatientAppointments(Store, "alice").ret = <<appointments[2]>>
    /\ getPatientAppointments(Store, "bob").ret = <<appointments[1]>>
    /\ getPatientAppointments(Store, "drd").ret = <<>>

\* ------------------------------------------------------- toggle frame claim
ToggleChangesFlagOnly ==
    \A p \in Users, b \in BOOLEAN :
        LET r == toggleDataMonetization(Store, p, b)
        IN  IF r.ok
            THEN r.s = [Store EXCEPT !.patients[p].dataSharing =
                                         IF b THEN "Enabled" ELSE "Disabled"]
            ELSE r.s = Store

\* Within 24 hours of a payout, disabling and re-enabling data sharing opens no
\* way to another one: the explicit claim reverts and the implicit trigger pays
\* nothing.
ToggleKeepsCooldown ==
    \A p \in Users, tok \in TokenBehaviour :
        (paidAt[p] # 0 /\ now < paidAt[p] + ONE_DAY) =>
            LET off == toggleDataMonetization(Store, p, FALSE)
                on == toggleDataMonetization(off.s, p, TRUE)
                c == claimDataReward(on.s, p, tok)
                a == requestAISymptomAnalysis(on.s, p, "symptoms", tok)
            IN  /\ off.ok /\ on.ok
                /\ on.s.patients[p].lastRewardTimestamp = patients[p].lastRewardTimestamp
                /\ c.err = "Reward not yet available"
                /\ c.s.sonic = sonic
                /\ a.ok
                /\ a.s.sonic = sonic

ToggleStep ==
    \A p \in Users :
        /\ patients'[p].dataSharing # patients[p].dataSharing =>
               patients'[p].lastRewardTimestamp = patients[p].lastRewardTimestamp
        /\ sonic'[p] > sonic[p] => (paidAt[p] = 0 \/ now >= paidAt[p] + ONE_DAY)

\* C37: toggleDataMonetization changes only the caller's data-sharing flag: it
\* leaves lastRewardTimestamp unchanged, so disabling and re-enabling data
\* sharing does not restart or shorten the 24-hour cooldown and cannot yield an
\* extra payout within the window.
C37_ToggleKeepsCooldown ==
    /\ []ToggleChangesFlagOnly
    /\ []ToggleKeepsCooldown
    /\ [][ToggleStep]_vars

\* alice was paid in this block and has disabled data sharing since; the
\* treasury holds another reward.
C37_Witness ==
    /\ paidAt["alice"] = now
    /\ patients["alice"].lastRewardTimestamp = now
    /\ patients["alice"].dataSharing = "Disabled"
    /\ sonic[Core] >= DATA_MONETIZATION_REWARD
    /\ toggleDataMonetization(Store, "alice", TRUE).ok

\* ---------------------------------------------------- core identity claim
\* C38: the core's own address never becomes a participant: in every state
\* reachable through direct calls and relayed operations, the core's address
\* has no registered Patient record and holds none of the Patient, Doctor,
\* LabTech, Pharmacy or Admin roles.
C38_CoreNeverParticipant ==
    /\ ~patients[Core].isRegistered
    /\ \A role \in Roles : Core \notin roles[role]

\* ------------------------------------------------- revocation specification
\* Doctors verified and revoked: the admin verifies drd and dre and revokes
\* their Doctor role again, alice books either of them in native currency, and
\* they confirm what they can.
RevocationNext ==
    \/ TxRegisterPatient("alice", "key1")
    \/ \E d \in {"drd", "dre"} : TxVerifyDoctor(Admin, d, "L1", 1)
    \/ \E d \in {"drd", "dre"} : TxRevokeRole(Admin, DOCTOR_ROLE, d)
    \/ \E d \in {"drd", "dre"} :
          TxBookAppointment("alice", d, now + 3600, "ETH", TRUE, 1, "moves", TRUE)
    \/ \E d \in {"drd", "dre"}, id \in ApptIds : TxConfirmAppointment(d, id)

RevocationSpec == Init /\ [][RevocationNext]_vars

RevokedDoctorRejected ==
    \A d \in Users :
        d \notin roles[DOCTOR_ROLE] =>
            ~bookAppointment(WithValue(Store, "alice", 1), "alice", d, now + 3600, "ETH",
                             TRUE, "link", 1, "moves", TRUE).ok

BookedDoctorHoldsRole ==
    appointmentCounter' # appointmentCounter =>
        appointments'[appointmentCounter'].doctor \in roles[DOCTOR_ROLE]

\* C39: every appointment is booked with a doctor who holds the Doctor role at
\* booking time: after an Admin revokes the Doctor role from an identity,
\* bookAppointment naming that identity fails.
C39_RevokedDoctorNotBooked ==
    /\ []RevokedDoctorRejected
    /\ [][BookedDoctorHoldsRole]_vars
====
